---------------------------- MODULE Spec2Model ----------------------------
(***************************************************************************)
(* Model of the neuroscan labs: the cognition battery (EyeLab), the motor  *)
(* lab (MotorLab) and the voice lab (VoiceLab, kept in EyeLab.tsx after    *)
(* the cognition component).                                               *)
(*                                                                         *)
(* The three labs are separate React components with no shared state, so   *)
(* each has its own specification over its own group of variables; the     *)
(* other groups stay at their initial values.                              *)
(*                                                                         *)
(* React state is modelled as it is seen by the next event: all setState   *)
(* calls of a handler are applied when the handler ends.  Refs are         *)
(* variables that change at once.                                          *)
(***************************************************************************)
EXTENDS Integers, Sequences, FiniteSets, TLC

VARIABLES
  \* ---- cognition battery (EyeLab) ----
  currentTest,        \* state: "none" | "saccade" | "stroop" | "nback"
  testPhase,          \* state: "ready" | "instructions" | "running" | "complete"
  currentTrial,       \* state: 1-based number of the trial on screen
  trialResults,       \* state: visible list of TrialResult
  currentTestResults, \* ref: list the results are pushed to
  saccadeVisible,     \* state: saccadeTarget.visible
  stroopStimulus,     \* state: [word, color] on screen
  nbackLetter,        \* state: letter on screen ("" when cleared)
  testActive,         \* ref
  responseTaken,      \* ref: per-trial debounce flag
  trialElapsed,       \* performance.now() - trialStartTime.current, in ms
  stroopTrials,       \* ref: pre-generated Stroop trials
  nBackSeq,           \* ref: pre-generated 2-back letters
  timers,             \* pending window.setTimeout timers, in creation order
  rndTape,            \* scenario: the values Math.random() returns
  profile,            \* scenario: what the user does by default in this run
  odd,                \* scenario: number of user deviations in this run
  aborted,            \* scenario: the last step was Exit or Restart
  \* ---- motor lab (MotorLab) ----
  cameraAccess,       \* environment: what getUserMedia({video}) answers
  m_permission,       \* state permission: "idle" | "granted" | "denied"
  camPending,         \* initCamera is awaiting getUserMedia
  modelLoad,          \* the model-load effect: "loading" | "done" | "failed"
  handLandmarker,     \* globalHandLandmarker is defined
  m_mounted,          \* the component is mounted (videoRef.current is set)
  m_isRecording,      \* state isRecording
  isRecordingRef,     \* ref
  testDuration,       \* state, in tenths of a second
  fingerTaps,         \* state
  fingerTapsRef,      \* ref
  tapIntervals,       \* state: list of ms between registered taps
  tremorSamplesRef,   \* ref: list of [t, y]
  lastTapTimeRef,     \* ref: ms, or NoTap for null
  timerRef,           \* the 100 ms interval of beginRecording is live
  m_tickers,          \* number of live 100 ms intervals of beginRecording
  renderLoopStartedRef, \* ref
  m_rafPending,       \* requestAnimationFrame(predictWebcam) is pending
  m_status,           \* state status: "error" after the catch of the loop,
                      \* "info" for every other message
  sinceStart,         \* Date.now() minus its value at the last beginRecording
  tapTimes,           \* history: Date.now() of every registered tap
  subFrames,          \* history: sub-threshold frames of this recording
  \* ---- voice lab (VoiceLab) ----
  micAccess,          \* environment: what getUserMedia({audio}) answers
  v_permission,       \* state permission
  initPending,        \* number of initAudio calls awaiting getUserMedia
  mediaRecorder,      \* mediaRecorderRef: "none" | "inactive" | "recording"
  v_isRecording,      \* state isRecording
  loopIsRecording,    \* the isRecording that analyzeAudio closed over
  recordingTicks,     \* number of 0.1 additions that made recordingDuration
  recordingTimer,     \* the 100 ms interval of startRecording is live
  v_tickers,          \* number of live 100 ms intervals of startRecording
  isAnalyzing,        \* state
  analysisTimers,     \* number of pending 2000 ms timeouts of stopRecording
  analysisResults,    \* state: NoResults or the result record
  pitchHistory,       \* ref: list of Hz
  peakRms,            \* ref, in 1/10000
  peakF0,             \* ref: Hz, or Null
  peakJitter,         \* ref: in 1/10000, or Null
  v_f0,               \* state f0: Hz, or Null
  v_rms,              \* state rms, in 1/10000
  v_jitter,           \* state jitter: in 1/10000, or Null
  v_loops,            \* number of analysis loops with a frame callback pending
  v_loopsStarted,     \* number of analysis loops ever started
  v_mounted,          \* the component is mounted
  \* ---- rolling buffers fed alone ----
  bufKind,            \* which buffer is fed: "tremor" | "intervals" | "pitch"
  pushed,             \* history: every value pushed, in order
  \* ---- the analysis functions applied alone ----
  fnKind,             \* which function is applied
  fnIn,               \* its arguments
  fnOut               \* <<>> before the call, <<value>> after it

cogVars == <<currentTest, testPhase, currentTrial, trialResults,
             currentTestResults, saccadeVisible, stroopStimulus, nbackLetter,
             testActive, responseTaken, trialElapsed, stroopTrials, nBackSeq,
             timers, rndTape, profile, odd, aborted>>

motorVars == <<cameraAccess, m_permission, camPending, modelLoad, handLandmarker,
               m_mounted, m_isRecording, isRecordingRef, testDuration,
               fingerTaps, fingerTapsRef, tapIntervals, tremorSamplesRef,
               lastTapTimeRef, timerRef, m_tickers, renderLoopStartedRef, m_rafPending,
               m_status, sinceStart, tapTimes, subFrames>>

voiceVars == <<micAccess, v_permission, initPending, mediaRecorder,
               v_isRecording, loopIsRecording, recordingTicks, recordingTimer, v_tickers,
               isAnalyzing, analysisTimers, analysisResults, pitchHistory,
               peakRms, peakF0, peakJitter, v_f0, v_rms, v_jitter, v_loops,
               v_loopsStarted, v_mounted>>

bufVars == <<bufKind, pushed>>

fnVars == <<fnKind, fnIn, fnOut>>

vars == <<cogVars, motorVars, voiceVars, bufVars, fnVars>>

\* what a step of one lab leaves alone
nonCog == <<motorVars, voiceVars, bufVars, fnVars>>
nonMotor == <<cogVars, voiceVars, bufVars, fnVars>>
nonVoice == <<cogVars, motorVars, bufVars, fnVars>>

-----------------------------------------------------------------------------
(* Program constants of EyeLab *)

totalTrials == 20
nVal == 2
saccadeTimeout == 2000
stroopTimeout == 3000
nbackSOA == 1600
nbackStimulusOn == 800
targetRadiusPx == 22
leadInMs == 4000
isiMs == 400

(* Bounds of the scenarios *)

\* Math.random() is k / RandDen for k in 0..RandDen-1
RandDen == 8
\* deviations of the user from the run's default behaviour
MaxOdd == 1
\* delay between stimulus onset and the user's response, in ms
ReactionMs == 200
\* the user deviates only up to this trial number, and in the last trial
OddUntil == 3

NoRt == -1
NoTest == "none"
Tests == {"saccade", "stroop", "nback"}

Min(a, b) == IF a < b THEN a ELSE b
Max(a, b) == IF a > b THEN a ELSE b

-----------------------------------------------------------------------------
(* Trial generators.  A tape is the sequence of values Math.random()       *)
(* returns, read cyclically; draw number p (from 0) is tape[p mod len].    *)

Rnd(tape, p) == tape[(p % Len(tape)) + 1]

\* Math.floor(Math.random() * n)
RndIndex(tape, p, n) == (Rnd(tape, p) * n) \div RandDen

letters == <<"A", "B", "C", "D", "E", "F", "G", "H">>
colors == <<"red", "blue", "green", "yellow">>

\* Math.random() < targetRate, targetRate = 0.3
IsForcedDraw(tape, p) == Rnd(tape, p) * 10 < 3 * RandDen

\* faulty variant: the first draw is kept, without the loop
RedrawPos_NoLoop(tape, p, pool, avoid) == p

\* while (L === avoid) L = letters[floor(random * 8)]: the draw that ends the loop
RECURSIVE RedrawPos(_, _, _, _)
RedrawPos(tape, p, pool, avoid) ==
  IF pool[RndIndex(tape, p, Len(pool)) + 1] # avoid THEN p
  ELSE RedrawPos(tape, p + 1, pool, avoid)

RECURSIVE NBackGen(_, _, _)
NBackGen(tape, seq, p) ==
  LET t == Len(seq) IN
  IF t >= totalTrials THEN seq
  ELSE IF t >= nVal /\ IsForcedDraw(tape, p)
       THEN NBackGen(tape, Append(seq, seq[t - nVal + 1]), p + 1)
       ELSE LET p1 == IF t >= nVal THEN p + 1 ELSE p
                p2 == IF t >= nVal
                      THEN RedrawPos(tape, p1, letters, seq[t - nVal + 1])
                      ELSE p1
            IN NBackGen(tape,
                        Append(seq, letters[RndIndex(tape, p2, Len(letters)) + 1]),
                        p2 + 1)

makeNBackSeq(tape) == NBackGen(tape, <<>>, 0)

\* the positions (from 0) at which the loop of makeNBackSeq took the
\* "force a match" branch, and those at which its while loop drew again
RECURSIVE NBackBranches(_, _, _, _, _)
NBackBranches(tape, seq, p, forced, redrawn) ==
  LET t == Len(seq) IN
  IF t >= totalTrials THEN [forced |-> forced, redrawn |-> redrawn]
  ELSE IF t >= nVal /\ IsForcedDraw(tape, p)
       THEN NBackBranches(tape, Append(seq, seq[t - nVal + 1]), p + 1,
                          forced \cup {t}, redrawn)
       ELSE LET p1 == IF t >= nVal THEN p + 1 ELSE p
                p2 == IF t >= nVal
                      THEN RedrawPos(tape, p1, letters, seq[t - nVal + 1])
                      ELSE p1
            IN NBackBranches(tape,
                 Append(seq, letters[RndIndex(tape, p2, Len(letters)) + 1]),
                 p2 + 1, forced,
                 IF p2 > p1 THEN redrawn \cup {t} ELSE redrawn)

RECURSIVE StroopGen(_, _, _)
StroopGen(tape, trials, p) ==
  LET i == Len(trials)
      half == totalTrials \div 2 IN
  IF i >= totalTrials THEN [trials |-> trials, p |-> p]
  ELSE IF i < half
       THEN LET c == colors[RndIndex(tape, p, Len(colors)) + 1]
            IN StroopGen(tape, Append(trials, [word |-> c, color |-> c]), p + 1)
       ELSE LET word == colors[RndIndex(tape, p, Len(colors)) + 1]
                p2 == RedrawPos(tape, p + 1, colors, word)
                color == colors[RndIndex(tape, p2, Len(colors)) + 1]
            IN StroopGen(tape, Append(trials, [word |-> word, color |-> color]),
                         p2 + 1)

Swap(s, a, b) == [s EXCEPT ![a] = s[b], ![b] = s[a]]

\* for (i = length - 1; i > 0; i--) swap(i, floor(random * (i + 1)))
RECURSIVE Shuffle(_, _, _, _)
Shuffle(tape, trials, i, p) ==
  IF i <= 0 THEN trials
  ELSE Shuffle(tape, Swap(trials, i + 1, RndIndex(tape, p, i + 1) + 1), i - 1, p + 1)

makeStroopTrials(tape) ==
  LET g == StroopGen(tape, <<>>, 0)
  IN Shuffle(tape, g.trials, Len(g.trials) - 1, g.p)

\* the tapes the cognition scenarios draw from
CogTapes == {<<1, 5, 3, 6>>, <<7, 0, 4>>}


Profiles == {"passive", "perfect"}

-----------------------------------------------------------------------------
(* Timers.  A pending timer is [kind, t, test, rem, tracked]: rem is the   *)
(* time left until it fires; tracked says that activeTimer.current holds   *)
(* its id.  An id held by activeTimer.current that belongs to a timer      *)
(* that has fired or was cleared matches no pending timer, so              *)
(* clearTimeout on it does nothing.                                        *)

Timer(kind, t, test, ms) ==
  [kind |-> kind, t |-> t, test |-> test, rem |-> ms, tracked |-> FALSE]

\* window.setTimeout(...) whose id is not kept
SetTimeout(ts, tm) == Append(ts, tm)

\* activeTimer.current = window.setTimeout(...)
SetActive(ts, tm) ==
  Append([i \in DOMAIN ts |-> [ts[i] EXCEPT !.tracked = FALSE]],
         [tm EXCEPT !.tracked = TRUE])

\* if (activeTimer.current) window.clearTimeout(activeTimer.current)
ClearActive(ts) == SelectSeq(ts, LAMBDA tm : ~tm.tracked)

PassTime(ts, d) == [i \in DOMAIN ts |-> [ts[i] EXCEPT !.rem = @ - d]]

RemoveAt(ts, i) == [j \in 1..(Len(ts) - 1) |-> IF j < i THEN ts[j] ELSE ts[j + 1]]

\* the pending timer that fires next: least time left, oldest first
FirstDue(ts) ==
  CHOOSE i \in DOMAIN ts :
    \A j \in DOMAIN ts : ts[i].rem < ts[j].rem \/ (ts[i].rem = ts[j].rem /\ i <= j)

\* the user can act d ms from now only if no timer fires before
CanWait(d) == \A i \in DOMAIN timers : d < timers[i].rem

-----------------------------------------------------------------------------
(* The functions of EyeLab, as the updates they make *)

\* faulty variant: the reaction time is dropped
Result_NoRt(trial, rt, correct, type) ==
  [trial |-> trial, rt |-> NoRt, correct |-> correct, type |-> type]

Result(trial, rt, correct, type) ==
  [trial |-> trial, rt |-> rt, correct |-> correct, type |-> type]

\* currentTestResults.current.push(res); setTrialResults([...currentTestResults.current])
recordResult(list, res) == Append(list, res)

\* faulty variant: the inter-trial timer is never started
advanceOrFinish_NoIsi(t, test, ts, phase, active) ==
  IF t + 1 >= totalTrials
  THEN [timers |-> ts, testPhase |-> "complete", testActive |-> FALSE]
  ELSE [timers |-> ts, testPhase |-> phase, testActive |-> active]

\* finishTest when the last trial has ended, else the inter-trial timer
advanceOrFinish(t, test, ts, phase, active) ==
  IF t + 1 >= totalTrials
  THEN [timers |-> ts, testPhase |-> "complete", testActive |-> FALSE]
  ELSE [timers |-> SetActive(ts, Timer("isi", t + 1, test, isiMs)),
        testPhase |-> phase, testActive |-> active]

TrialTimeoutMs(test) ==
  CASE test = "saccade" -> saccadeTimeout
    [] test = "stroop" -> stroopTimeout
    [] test = "nback" -> nbackSOA

\* the timers runTrial starts
runTrialTimers(t, test, ts) ==
  IF test = "nback"
  THEN SetActive(SetTimeout(ts, Timer("stim", t, test, nbackStimulusOn)),
                 Timer("trial", t, test, nbackSOA))
  ELSE SetActive(ts, Timer("trial", t, test, TrialTimeoutMs(test)))

\* faulty variant: the letter is compared with the one just before it
IsTargetAt_OneBack(seq, t) ==
  /\ t >= 1
  /\ t < Len(seq)
  /\ seq[t] = seq[t + 1]

\* t >= nVal && nBackSeq.current[t - nVal] === letter (t from 0)
IsTargetAt(seq, t) ==
  /\ t >= nVal
  /\ t < Len(seq)
  /\ seq[t - nVal + 1] = seq[t + 1]

\* Math.hypot(dx, dy) <= targetRadiusPx
Within(dx, dy) == dx * dx + dy * dy <= targetRadiusPx * targetRadiusPx

-----------------------------------------------------------------------------
(* Scenario accounting.  A run has a default user: "passive" never         *)
(* responds, "perfect" gives the right response ReactionMs after every     *)
(* stimulus that asks for one.  Every other user response, and every       *)
(* step taken while the perfect user still owes a response, is a           *)
(* deviation; a run has at most MaxOdd of them, all of them up to trial    *)
(* OddUntil or in the last trial.  Exit and Restart are pressed in the     *)
(* same window.                                                            *)

Delays == {0, ReactionMs}

ClickOffsets == {<<0, 0>>, <<22, 0>>, <<16, 16>>}

\* the letter of trial t (from 0) equals the letter two trials back
TrueTarget(t) ==
  /\ t >= 2
  /\ t < Len(nBackSeq)
  /\ nBackSeq[t + 1] = nBackSeq[t - 1]

\* a click no further than 22 px from the centre of the target
GoodClick(dx, dy) == dx * dx + dy * dy <= 484

Expecting ==
  /\ profile = "perfect"
  /\ testPhase = "running"
  /\ ~responseTaken
  /\ \E i \in DOMAIN timers : timers[i].kind = "trial" /\ timers[i].rem > ReactionMs
  /\ currentTest = "saccade" => saccadeVisible
  /\ currentTest = "nback" => TrueTarget(currentTrial - 1)

InWindow == currentTrial <= OddUntil \/ currentTrial >= totalTrials

Pay == InWindow /\ odd < MaxOdd /\ odd' = odd + 1

Free == odd' = odd

TimerCost == IF Expecting THEN Pay ELSE Free

ResponseCost(good, d) == IF Expecting /\ good /\ d = ReactionMs THEN Free ELSE Pay

-----------------------------------------------------------------------------
(* Cognition battery: initial state and actions *)

NoStimulus == [word |-> "", color |-> ""]

CogInit ==
  /\ currentTest = NoTest
  /\ testPhase = "ready"
  /\ currentTrial = 0
  /\ trialResults = <<>>
  /\ currentTestResults = <<>>
  /\ saccadeVisible = FALSE
  /\ stroopStimulus = NoStimulus
  /\ nbackLetter = ""
  /\ testActive = FALSE
  /\ responseTaken = FALSE
  /\ trialElapsed = 0
  /\ stroopTrials = <<>>
  /\ nBackSeq = <<>>
  /\ timers = <<>>
  /\ rndTape \in CogTapes
  /\ profile = "passive"
  /\ odd = 0
  /\ aborted = FALSE

\* startTest(testType): a test card of the menu, or the Restart button
StartTest(test, prof) ==
  /\ UNCHANGED nonCog
  /\ currentTest = NoTest \/ (test = currentTest /\ InWindow)
  /\ timers' = SetActive(ClearActive(timers), Timer("leadin", 0, test, leadInMs))
  /\ testActive' = TRUE
  /\ responseTaken' = FALSE
  /\ trialResults' = <<>>
  /\ currentTestResults' = <<>>
  /\ currentTrial' = 0
  /\ currentTest' = test
  /\ testPhase' = "instructions"
  /\ stroopTrials' = IF test = "stroop" THEN makeStroopTrials(rndTape) ELSE stroopTrials
  /\ nBackSeq' = IF test = "nback" THEN makeNBackSeq(rndTape) ELSE nBackSeq
  /\ profile' = prof
  /\ odd' = 0
  /\ aborted' = (currentTest # NoTest)
  /\ UNCHANGED <<saccadeVisible, stroopStimulus, nbackLetter, trialElapsed, rndTape>>

\* resetTest: the Exit button, shown while running or complete
ResetTest ==
  /\ UNCHANGED nonCog
  /\ currentTest # NoTest
  /\ testPhase \in {"running", "complete"}
  /\ InWindow
  /\ timers' = ClearActive(timers)
  /\ testActive' = FALSE
  /\ currentTest' = NoTest
  /\ testPhase' = "ready"
  /\ trialResults' = <<>>
  /\ currentTrial' = 0
  /\ saccadeVisible' = FALSE
  /\ stroopStimulus' = NoStimulus
  /\ nbackLetter' = ""
  /\ profile' = "passive"
  /\ odd' = 0
  /\ aborted' = TRUE
  /\ UNCHANGED <<currentTestResults, responseTaken, trialElapsed, stroopTrials,
                 nBackSeq, rndTape>>

\* runTrial(t, testType), with ts the timers pending when it is called
runTrial(t, test, ts) ==
  /\ responseTaken' = FALSE
  /\ currentTrial' = t + 1
  /\ trialElapsed' = 0
  /\ saccadeVisible' = IF test = "saccade" THEN TRUE ELSE saccadeVisible
  /\ stroopStimulus' = IF test = "stroop" THEN stroopTrials[t + 1] ELSE stroopStimulus
  /\ nbackLetter' = IF test = "nback" THEN nBackSeq[t + 1] ELSE nbackLetter
  /\ timers' = runTrialTimers(t, test, ts)

NextTimer == timers[FirstDue(timers)]

\* the timers left when the next one fires
AfterFire == PassTime(RemoveAt(timers, FirstDue(timers)), NextTimer.rem)

\* the lead-in timer of startTest fires
LeadInFires ==
  /\ UNCHANGED nonCog
  /\ timers # <<>>
  /\ NextTimer.kind = "leadin"
  /\ TimerCost
  /\ testPhase' = "running"
  /\ runTrial(0, NextTimer.test, AfterFire)
  /\ UNCHANGED <<currentTest, trialResults, currentTestResults, testActive,
                 stroopTrials, nBackSeq, rndTape, profile>>
  /\ aborted' = FALSE

\* the inter-trial timer of advanceOrFinish fires
IsiFires ==
  /\ UNCHANGED nonCog
  /\ timers # <<>>
  /\ NextTimer.kind = "isi"
  /\ TimerCost
  /\ runTrial(NextTimer.t, NextTimer.test, AfterFire)
  /\ UNCHANGED <<currentTest, testPhase, trialResults, currentTestResults,
                 testActive, stroopTrials, nBackSeq, rndTape, profile>>
  /\ aborted' = FALSE

\* the trial timeout of a saccade or Stroop trial fires
TrialTimeoutFires ==
  /\ UNCHANGED nonCog
  /\ timers # <<>>
  /\ NextTimer.kind = "trial"
  /\ NextTimer.test \in {"saccade", "stroop"}
  /\ TimerCost
  /\ trialElapsed' = trialElapsed + NextTimer.rem
  /\ IF ~responseTaken
     THEN LET t == NextTimer.t
              res == Result(t + 1, NoRt, FALSE, "miss")
              a == advanceOrFinish(t, NextTimer.test, AfterFire, testPhase, testActive)
          IN /\ saccadeVisible' = IF NextTimer.test = "saccade" THEN FALSE
                                  ELSE saccadeVisible
             /\ currentTestResults' = recordResult(currentTestResults, res)
             /\ trialResults' = recordResult(currentTestResults, res)
             /\ timers' = a.timers
             /\ testPhase' = a.testPhase
             /\ testActive' = a.testActive
     ELSE /\ timers' = AfterFire
          /\ UNCHANGED <<saccadeVisible, currentTestResults, trialResults,
                         testPhase, testActive>>
  /\ UNCHANGED <<currentTest, currentTrial, stroopStimulus, nbackLetter,
                 responseTaken, stroopTrials, nBackSeq, rndTape, profile>>
  /\ aborted' = FALSE

\* the type recorded when a 2-back trial ends without a response
NBackNoResponse(t) ==
  IF IsTargetAt(nBackSeq, t)
  THEN Result(t + 1, NoRt, FALSE, "miss")
  ELSE Result(t + 1, NoRt, TRUE, "correct_rejection")

\* the end-of-trial timer of a 2-back trial fires
NBackTrialFires ==
  /\ UNCHANGED nonCog
  /\ timers # <<>>
  /\ NextTimer.kind = "trial"
  /\ NextTimer.test = "nback"
  /\ TimerCost
  /\ trialElapsed' = trialElapsed + NextTimer.rem
  /\ LET t == NextTimer.t
         a == advanceOrFinish(t, NextTimer.test, AfterFire, testPhase, testActive)
     IN /\ IF ~responseTaken
           THEN /\ currentTestResults' = recordResult(currentTestResults, NBackNoResponse(t))
                /\ trialResults' = recordResult(currentTestResults, NBackNoResponse(t))
           ELSE UNCHANGED <<currentTestResults, trialResults>>
        /\ timers' = a.timers
        /\ testPhase' = a.testPhase
        /\ testActive' = a.testActive
  /\ UNCHANGED <<currentTest, currentTrial, saccadeVisible, stroopStimulus,
                 nbackLetter, responseTaken, stroopTrials, nBackSeq, rndTape, profile>>
  /\ aborted' = FALSE

\* the stimulus timer of a 2-back trial fires: the letter is cleared
StimFires ==
  /\ UNCHANGED nonCog
  /\ timers # <<>>
  /\ NextTimer.kind = "stim"
  /\ TimerCost
  /\ trialElapsed' = trialElapsed + NextTimer.rem
  /\ nbackLetter' = ""
  /\ timers' = AfterFire
  /\ UNCHANGED <<currentTest, testPhase, currentTrial, trialResults,
                 currentTestResults, saccadeVisible, stroopStimulus, testActive,
                 responseTaken, stroopTrials, nBackSeq, rndTape, profile>>
  /\ aborted' = FALSE

\* onSaccadeClick: a click in the test area, d ms from now, at (dx, dy) from
\* the centre of the target
SaccadeClick(dx, dy, d) ==
  /\ UNCHANGED nonCog
  /\ currentTest = "saccade"
  /\ saccadeVisible
  /\ ~responseTaken
  /\ CanWait(d)
  /\ ResponseCost(GoodClick(dx, dy), d)
  /\ LET within == Within(dx, dy)
         res == Result(currentTrial, trialElapsed + d, within,
                       IF within THEN "hit" ELSE "false_alarm")
         a == advanceOrFinish(currentTrial - 1, "saccade",
                              ClearActive(PassTime(timers, d)), testPhase, testActive)
     IN /\ responseTaken' = TRUE
        /\ saccadeVisible' = FALSE
        /\ currentTestResults' = recordResult(currentTestResults, res)
        /\ trialResults' = recordResult(currentTestResults, res)
        /\ timers' = a.timers
        /\ testPhase' = a.testPhase
        /\ testActive' = a.testActive
  /\ trialElapsed' = trialElapsed + d
  /\ UNCHANGED <<currentTest, currentTrial, stroopStimulus, nbackLetter,
                 stroopTrials, nBackSeq, rndTape, profile>>
  /\ aborted' = FALSE

\* onStroopAnswer(choiceColor): a color button or key, both live only while
\* the phase is 'running'
StroopAnswer(choice, d) ==
  /\ UNCHANGED nonCog
  /\ testPhase = "running"
  /\ currentTest = "stroop"
  /\ ~responseTaken
  /\ CanWait(d)
  /\ ResponseCost(choice = stroopStimulus.color, d)
  /\ LET correct == choice = stroopStimulus.color
         res == Result(currentTrial, trialElapsed + d, correct,
                       IF correct THEN "hit" ELSE "false_alarm")
         a == advanceOrFinish(currentTrial - 1, "stroop",
                              ClearActive(PassTime(timers, d)), testPhase, testActive)
     IN /\ responseTaken' = TRUE
        /\ currentTestResults' = recordResult(currentTestResults, res)
        /\ trialResults' = recordResult(currentTestResults, res)
        /\ timers' = a.timers
        /\ testPhase' = a.testPhase
        /\ testActive' = a.testActive
  /\ trialElapsed' = trialElapsed + d
  /\ UNCHANGED <<currentTest, currentTrial, saccadeVisible, stroopStimulus,
                 nbackLetter, stroopTrials, nBackSeq, rndTape, profile>>
  /\ aborted' = FALSE

\* onNBackAnswer: the Match button or Space, both live only while the phase
\* is 'running'
NBackAnswer(d) ==
  /\ UNCHANGED nonCog
  /\ testPhase = "running"
  /\ currentTest = "nback"
  /\ ~responseTaken
  /\ CanWait(d)
  /\ ResponseCost(TRUE, d)
  /\ LET isTarget == IsTargetAt(nBackSeq, currentTrial - 1)
         res == Result(currentTrial, trialElapsed + d, isTarget,
                       IF isTarget THEN "hit" ELSE "false_alarm")
     IN /\ responseTaken' = TRUE
        /\ currentTestResults' = recordResult(currentTestResults, res)
        /\ trialResults' = recordResult(currentTestResults, res)
  /\ timers' = PassTime(timers, d)
  /\ trialElapsed' = trialElapsed + d
  /\ UNCHANGED <<currentTest, testPhase, currentTrial, saccadeVisible,
                 stroopStimulus, nbackLetter, testActive, stroopTrials, nBackSeq,
                 rndTape, profile>>
  /\ aborted' = FALSE

CogTimerStep ==
  \/ LeadInFires
  \/ IsiFires
  \/ TrialTimeoutFires
  \/ NBackTrialFires
  \/ StimFires

CogResponse ==
  \/ \E o \in ClickOffsets, d \in Delays : SaccadeClick(o[1], o[2], d)
  \/ \E c \in {colors[i] : i \in DOMAIN colors}, d \in Delays : StroopAnswer(c, d)
  \/ \E d \in Delays : NBackAnswer(d)

-----------------------------------------------------------------------------
(* Rolling buffers of the motor and voice labs *)

tremorCapacity == 300
intervalCapacity == 600
pitchCapacity == 100

\* faulty variant: the newest values are dropped
SpliceTo_KeepFirst(a, cap) == IF Len(a) > cap THEN SubSeq(a, 1, cap) ELSE a

\* a.splice(0, a.length - cap), run when a.length > cap
SpliceTo(a, cap) ==
  IF Len(a) > cap THEN SubSeq(a, Len(a) - cap + 1, Len(a)) ELSE a

\* predictWebcam: one push per hand that has a wrist, then one splice
pushTremor(buf, samples) == SpliceTo(buf \o samples, tremorCapacity)

\* registerTap: setTapIntervals(prev => [...prev, v], spliced to 600)
pushInterval(prev, v) == SpliceTo(Append(prev, v), intervalCapacity)

\* analyzeAudio: push, then one shift when the list is longer than 100
pushPitch(hist, f) ==
  LET h == Append(hist, f)
  IN  IF Len(h) > pitchCapacity THEN Tail(h) ELSE h

-----------------------------------------------------------------------------
(* Motor lab *)

\* lastTapTimeRef.current = null
NoTap == -1
\* registerTap refuses a tap 200 ms or less after the last one
tapRefractoryMs == 200
\* Math.min(640, 480) * thresholdFraction, with the fraction 0.05 that
\* predictWebcam closed over
TapThresholdPx == 24
\* the interval stops the test when the duration reaches 5.0 s (in tenths)
durationLimit == 50

\* Date.now() at beginRecording
EpochMs == 1000000
\* frames analysed in one recording
MaxFrames == 3
\* ms between two analysed frames
FrameGaps == {100, 101}

\* one detected hand: thumb-index distance and wrist height, in px
Hand(d, y) == [d |-> d, y |-> y]

HandInputs ==
  { <<>>,
    <<Hand(10, 100)>>,
    <<Hand(40, 120)>>,
    <<Hand(40, 100), Hand(10, 130)>> }

MotorCameras == {"allow", "deny", "noapi"}

DateNow == EpochMs + sinceStart

MotorInit ==
  /\ m_permission = "idle"
  /\ camPending = FALSE
  /\ modelLoad = "loading"
  /\ handLandmarker = FALSE
  /\ m_mounted = TRUE
  /\ m_isRecording = FALSE
  /\ isRecordingRef = FALSE
  /\ testDuration = 0
  /\ fingerTaps = 0
  /\ fingerTapsRef = 0
  /\ tapIntervals = <<>>
  /\ tremorSamplesRef = <<>>
  /\ lastTapTimeRef = NoTap
  /\ timerRef = FALSE
  /\ m_tickers = 0
  /\ renderLoopStartedRef = FALSE
  /\ m_rafPending = FALSE
  /\ m_status = "info"
  /\ sinceStart = 0
  /\ tapTimes = <<>>
  /\ subFrames = 0

\* the model-load effect ends: the landmarker is created, or creation throws
ModelLoads(ok) ==
  /\ UNCHANGED nonMotor
  /\ modelLoad = "loading"
  /\ modelLoad' = IF ok THEN "done" ELSE "failed"
  /\ handLandmarker' = ok
  /\ m_status' = IF m_mounted THEN "info" ELSE m_status
  /\ UNCHANGED <<cameraAccess, m_permission, camPending, m_mounted,
                 m_isRecording, isRecordingRef, testDuration, fingerTaps,
                 fingerTapsRef, tapIntervals, tremorSamplesRef, lastTapTimeRef,
                 timerRef, m_tickers, renderLoopStartedRef, m_rafPending, sinceStart,
                 tapTimes, subFrames>>

\* initCamera up to its await: the Enable Camera button
initCamera ==
  /\ UNCHANGED nonMotor
  /\ m_mounted
  /\ IF cameraAccess = "noapi"
     THEN /\ m_permission' = "denied"
          /\ m_status' = "info"
          /\ UNCHANGED camPending
     ELSE /\ camPending' = TRUE
          /\ m_status' = "info"
          /\ UNCHANGED m_permission
  /\ UNCHANGED <<cameraAccess, modelLoad, handLandmarker, m_mounted,
                 m_isRecording, isRecordingRef, testDuration, fingerTaps,
                 fingerTapsRef, tapIntervals, tremorSamplesRef, lastTapTimeRef,
                 timerRef, m_tickers, renderLoopStartedRef, m_rafPending, sinceStart,
                 tapTimes, subFrames>>

\* initCamera after its await: getUserMedia answered.  Requests made while
\* one is pending are answered with it.  After unmount videoRef.current is
\* null, the assignment of the stream throws into the catch, and the
\* setState calls of the catch reach no component.
initCameraResolves ==
  /\ UNCHANGED nonMotor
  /\ camPending
  /\ camPending' = FALSE
  /\ IF ~m_mounted
     THEN UNCHANGED <<m_permission, m_status, renderLoopStartedRef, m_rafPending>>
     ELSE IF cameraAccess = "allow"
     THEN /\ m_permission' = "granted"
          /\ m_status' = "info"
          /\ renderLoopStartedRef' = TRUE
          /\ m_rafPending' = TRUE
     ELSE /\ m_permission' = "denied"
          /\ m_status' = "info"
          /\ UNCHANGED <<renderLoopStartedRef, m_rafPending>>
  /\ UNCHANGED <<cameraAccess, modelLoad, handLandmarker, m_mounted,
                 m_isRecording, isRecordingRef, testDuration, fingerTaps,
                 fingerTapsRef, tapIntervals, tremorSamplesRef, lastTapTimeRef,
                 timerRef, m_tickers, sinceStart, tapTimes, subFrames>>

\* beginRecording: everything of the last recording is cleared and the
\* 100 ms interval is started
beginRecording ==
  /\ m_isRecording' = TRUE
  /\ isRecordingRef' = TRUE
  /\ testDuration' = 0
  /\ fingerTaps' = 0
  /\ fingerTapsRef' = 0
  /\ tapIntervals' = <<>>
  /\ tremorSamplesRef' = <<>>
  /\ lastTapTimeRef' = NoTap
  /\ m_status' = "info"
  /\ timerRef' = TRUE
  /\ m_tickers' = (IF timerRef THEN m_tickers - 1 ELSE m_tickers) + 1
  /\ sinceStart' = 0
  /\ tapTimes' = <<>>
  /\ subFrames' = 0

\* startTest: the Start Test button
startTest ==
  /\ UNCHANGED nonMotor
  /\ m_mounted
  /\ IF m_permission # "granted"
     THEN /\ m_status' = "info"
          /\ UNCHANGED <<m_isRecording, isRecordingRef, testDuration,
                         fingerTaps, fingerTapsRef, tapIntervals,
                         tremorSamplesRef, lastTapTimeRef, timerRef, m_tickers,
                         sinceStart, tapTimes, subFrames>>
     ELSE IF isRecordingRef
     THEN UNCHANGED <<m_status, m_isRecording, isRecordingRef, testDuration,
                      fingerTaps, fingerTapsRef, tapIntervals,
                      tremorSamplesRef, lastTapTimeRef, timerRef, m_tickers,
                      sinceStart, tapTimes, subFrames>>
     ELSE beginRecording
  /\ UNCHANGED <<cameraAccess, m_permission, camPending, modelLoad,
                 handLandmarker, m_mounted, renderLoopStartedRef, m_rafPending>>

\* faulty variant: the test is stopped one tick late
MotorTick_StopsLate ==
  /\ UNCHANGED nonMotor
  /\ m_tickers > 0
  /\ LET next == testDuration + 1
     IN  IF next > durationLimit
         THEN /\ testDuration' = durationLimit
              /\ m_isRecording' = FALSE
              /\ isRecordingRef' = FALSE
              /\ timerRef' = FALSE
              /\ m_tickers' = IF timerRef THEN m_tickers - 1 ELSE m_tickers
              /\ m_status' = "info"
         ELSE /\ testDuration' = next
              /\ UNCHANGED <<m_isRecording, isRecordingRef, timerRef, m_tickers, m_status>>
  /\ UNCHANGED <<cameraAccess, m_permission, camPending, modelLoad,
                 handLandmarker, m_mounted, fingerTaps, fingerTapsRef,
                 tapIntervals, tremorSamplesRef, lastTapTimeRef,
                 renderLoopStartedRef, m_rafPending, sinceStart, tapTimes,
                 subFrames>>

\* faulty variant: stopTest leaves isRecordingRef.current set
MotorTick_KeepsRef ==
  /\ UNCHANGED nonMotor
  /\ m_tickers > 0
  /\ LET next == testDuration + 1
     IN  IF next >= durationLimit
         THEN /\ testDuration' = durationLimit
              /\ m_isRecording' = FALSE
              /\ timerRef' = FALSE
              /\ m_tickers' = IF timerRef THEN m_tickers - 1 ELSE m_tickers
              /\ m_status' = "info"
              /\ UNCHANGED isRecordingRef
         ELSE /\ testDuration' = next
              /\ UNCHANGED <<m_isRecording, isRecordingRef, timerRef, m_tickers, m_status>>
  /\ UNCHANGED <<cameraAccess, m_permission, camPending, modelLoad,
                 handLandmarker, m_mounted, fingerTaps, fingerTapsRef,
                 tapIntervals, tremorSamplesRef, lastTapTimeRef,
                 renderLoopStartedRef, m_rafPending, sinceStart, tapTimes,
                 subFrames>>

\* one tick of the interval of beginRecording; stopTest at 5.0 s
MotorTick ==
  /\ UNCHANGED nonMotor
  /\ m_tickers > 0
  /\ LET next == testDuration + 1
     IN  IF next >= durationLimit
         THEN /\ testDuration' = durationLimit
              /\ m_isRecording' = FALSE
              /\ isRecordingRef' = FALSE
              /\ timerRef' = FALSE
              /\ m_tickers' = IF timerRef THEN m_tickers - 1 ELSE m_tickers
              /\ m_status' = "info"
         ELSE /\ testDuration' = next
              /\ UNCHANGED <<m_isRecording, isRecordingRef, timerRef, m_tickers, m_status>>
  /\ UNCHANGED <<cameraAccess, m_permission, camPending, modelLoad,
                 handLandmarker, m_mounted, fingerTaps, fingerTapsRef,
                 tapIntervals, tremorSamplesRef, lastTapTimeRef,
                 renderLoopStartedRef, m_rafPending, sinceStart, tapTimes,
                 subFrames>>

\* faulty variant: a tap exactly 200 ms after the last one is registered
registerTap_Lt(now, lastRef, taps, intervals) ==
  LET last == IF lastRef = NoTap THEN 0 ELSE lastRef
  IN  IF now - last < tapRefractoryMs
      THEN [fired |-> FALSE, lastTapTimeRef |-> lastRef, fingerTaps |-> taps,
            tapIntervals |-> intervals]
      ELSE [fired |-> TRUE, lastTapTimeRef |-> now, fingerTaps |-> taps + 1,
            tapIntervals |->
              pushInterval(intervals, now - (IF last = 0 THEN now ELSE last))]

\* faulty variant: the first interval is measured from time 0
registerTap_FromZero(now, lastRef, taps, intervals) ==
  LET last == IF lastRef = NoTap THEN 0 ELSE lastRef
  IN  IF now - last <= tapRefractoryMs
      THEN [fired |-> FALSE, lastTapTimeRef |-> lastRef, fingerTaps |-> taps,
            tapIntervals |-> intervals]
      ELSE [fired |-> TRUE, lastTapTimeRef |-> now, fingerTaps |-> taps + 1,
            tapIntervals |-> pushInterval(intervals, now - last)]

\* faulty variant: a refused tap still moves the last-tap time
registerTap_MovesLast(now, lastRef, taps, intervals) ==
  LET last == IF lastRef = NoTap THEN 0 ELSE lastRef
  IN  IF now - last <= tapRefractoryMs
      THEN [fired |-> FALSE, lastTapTimeRef |-> now, fingerTaps |-> taps,
            tapIntervals |-> intervals]
      ELSE [fired |-> TRUE, lastTapTimeRef |-> now, fingerTaps |-> taps + 1,
            tapIntervals |->
              pushInterval(intervals, now - (IF last = 0 THEN now ELSE last))]

\* faulty variant: the first tap of a recording appends no interval
registerTap_SkipsFirst(now, lastRef, taps, intervals) ==
  LET last == IF lastRef = NoTap THEN 0 ELSE lastRef
  IN  IF now - last <= tapRefractoryMs
      THEN [fired |-> FALSE, lastTapTimeRef |-> lastRef, fingerTaps |-> taps,
            tapIntervals |-> intervals]
      ELSE [fired |-> TRUE, lastTapTimeRef |-> now, fingerTaps |-> taps + 1,
            tapIntervals |-> IF last = 0 THEN intervals
                             ELSE pushInterval(intervals, now - last)]

\* registerTap at time now, from the last tap time and the two states
registerTap(now, lastRef, taps, intervals) ==
  LET last == IF lastRef = NoTap THEN 0 ELSE lastRef
  IN  IF now - last <= tapRefractoryMs
      THEN [fired |-> FALSE, lastTapTimeRef |-> lastRef, fingerTaps |-> taps,
            tapIntervals |-> intervals]
      ELSE [fired |-> TRUE, lastTapTimeRef |-> now, fingerTaps |-> taps + 1,
            tapIntervals |->
              pushInterval(intervals, now - (IF last = 0 THEN now ELSE last))]

\* minDist of predictWebcam; 0 hands leave it at Infinity
NoDist == -1

minDist(hands) ==
  IF hands = <<>> THEN NoDist
  ELSE LET ds == {hands[i].d : i \in DOMAIN hands}
       IN  CHOOSE d \in ds : \A e \in ds : d <= e

\* the tremor samples one frame pushes: one per hand, all at Date.now()
frameSamples(hands, now) == [i \in DOMAIN hands |-> [t |-> now, y |-> hands[i].y]]

IsSubThreshold(hands) == minDist(hands) # NoDist /\ minDist(hands) < TapThresholdPx

\* predictWebcam: one animation frame.  fresh: the video has a new frame;
\* throws: detection or drawing throws inside the try block; gap: the ms
\* since the last frame that found a hand (or since beginRecording).
predictWebcam(fresh, throws, hands, gap) ==
  /\ UNCHANGED nonMotor
  /\ m_rafPending
  /\ m_rafPending' = TRUE
  /\ IF ~m_mounted \/ ~handLandmarker \/ ~(isRecordingRef /\ fresh)
        \/ (~throws /\ hands = <<>>)
     THEN UNCHANGED <<m_status, fingerTaps, fingerTapsRef, tapIntervals,
                      tremorSamplesRef, lastTapTimeRef, sinceStart, tapTimes,
                      subFrames>>
     ELSE IF throws
     THEN /\ m_status' = "error"
          /\ UNCHANGED <<fingerTaps, fingerTapsRef, tapIntervals,
                         tremorSamplesRef, lastTapTimeRef, sinceStart,
                         tapTimes, subFrames>>
     ELSE /\ sinceStart < MaxFrames * 100
          /\ sinceStart' = sinceStart + gap
          /\ LET now == EpochMs + sinceStart'
                 tap == registerTap(now, lastTapTimeRef, fingerTaps, tapIntervals)
             IN  /\ tremorSamplesRef' =
                      pushTremor(tremorSamplesRef, frameSamples(hands, now))
                 /\ IF IsSubThreshold(hands)
                    THEN /\ lastTapTimeRef' = tap.lastTapTimeRef
                         /\ fingerTaps' = tap.fingerTaps
                         /\ fingerTapsRef' = tap.fingerTaps
                         /\ tapIntervals' = tap.tapIntervals
                         /\ tapTimes' = IF tap.fired THEN Append(tapTimes, now)
                                        ELSE tapTimes
                         /\ subFrames' = subFrames + 1
                    ELSE UNCHANGED <<lastTapTimeRef, fingerTaps, fingerTapsRef,
                                     tapIntervals, tapTimes, subFrames>>
          /\ UNCHANGED m_status
  /\ UNCHANGED <<cameraAccess, m_permission, camPending, modelLoad,
                 handLandmarker, m_mounted, m_isRecording, isRecordingRef,
                 testDuration, timerRef, m_tickers, renderLoopStartedRef>>

\* the cleanup of the model-load effect, at unmount
MotorUnmount ==
  /\ UNCHANGED nonMotor
  /\ m_mounted
  /\ m_mounted' = FALSE
  /\ timerRef' = FALSE
  /\ m_tickers' = IF timerRef THEN m_tickers - 1 ELSE m_tickers
  /\ handLandmarker' = FALSE
  /\ UNCHANGED <<cameraAccess, m_permission, camPending, modelLoad,
                 m_isRecording, isRecordingRef, testDuration, fingerTaps,
                 fingerTapsRef, tapIntervals, tremorSamplesRef, lastTapTimeRef,
                 renderLoopStartedRef, m_rafPending, m_status, sinceStart,
                 tapTimes, subFrames>>

MotorNext ==
  \/ \E ok \in BOOLEAN : ModelLoads(ok)
  \/ initCamera
  \/ initCameraResolves
  \/ startTest
  \/ MotorTick
  \/ \E fresh \in BOOLEAN, throws \in BOOLEAN, hands \in HandInputs,
        gap \in FrameGaps : predictWebcam(fresh, throws, hands, gap)
  \/ MotorUnmount

-----------------------------------------------------------------------------
(* Voice lab.  Loudness and jitter are integers in units of 1/10000,      *)
(* pitch is in Hz, the risk score is in tenths.                            *)

\* null of f0, jitter, peakF0 and peakJitter
Null == -1
\* recordingDuration is a double: fifty additions of 0.1 give
\* 4.999999999999998, so newDuration >= 5 first holds at the 51st tick
voiceStopTicks == 51

\* initAudio calls that can wait for one permission prompt
MaxInits == 2

VoiceMics == {"allow", "deny"}

\* one analysed buffer: its rms, the pitch of autocorrelatePitch and the
\* pitch detectPitchFFT would give
AudioFrame(r, a, f) == [rms |-> r, auto |-> a, fft |-> f]

AudioFrames ==
  { AudioFrame(0, Null, Null),
    AudioFrame(500, 220, Null),
    AudioFrame(300, Null, 230),
    AudioFrame(400, 801, Null) }

\* the four Math.random() values of one generateRealisticValues call
FakeTapes == {<<0, 0, 0, 0>>, <<5, 2, 7, 3>>}

basePitches == <<120, 140, 160, 180, 200, 220, 240, 260, 280, 300>>

\* JavaScript truthiness of a number or null
Falsy(x) == x = Null \/ x = 0

generateRealisticValues(tape) ==
  [f0 |-> basePitches[RndIndex(tape, 0, 10) + 1]
            + ((Rnd(tape, 1) * 20) \div RandDen) - 10,
   jitter |-> 100 + ((Rnd(tape, 2) * 700) \div RandDen),
   rms |-> 200 + ((Rnd(tape, 3) * 1300) \div RandDen)]

\* faulty variant: the sum without its cap
calculateRiskScore_Uncapped(rms, jitter, f0) ==
  LET loud == IF rms < 10 THEN 4 ELSE IF rms < 100 THEN 2 ELSE 0
      jit == IF ~Falsy(jitter) /\ jitter > 1000 THEN 4
             ELSE IF ~Falsy(jitter) /\ jitter > 600 THEN 3 ELSE 0
      nop == IF Falsy(f0) THEN 3 ELSE 0
  IN  loud + jit + nop

\* calculateRiskScore, in tenths
calculateRiskScore(rms, jitter, f0) ==
  LET loud == IF rms < 10 THEN 4 ELSE IF rms < 100 THEN 2 ELSE 0
      jit == IF ~Falsy(jitter) /\ jitter > 1000 THEN 4
             ELSE IF ~Falsy(jitter) /\ jitter > 600 THEN 3 ELSE 0
      nop == IF Falsy(f0) THEN 3 ELSE 0
  IN  Min(10, loud + jit + nop)

\* floor of the square root
Isqrt(x) == CHOOSE r \in 0..x : r * r <= x /\ (r + 1) * (r + 1) > x

Abs(x) == IF x < 0 THEN -x ELSE x

RECURSIVE SumSeq(_)
SumSeq(s) == IF s = <<>> THEN 0 ELSE Head(s) + SumSeq(Tail(s))

\* the relative jitter of analyzeAudio: sd / mean of the successive
\* differences of the pitch history, to 1/10000 (rounded down)
relJitter(arr) ==
  LET n == Len(arr) - 1
      deltas == [i \in 1..n |-> Abs(arr[i + 1] - arr[i])]
      sum == SumSeq(deltas)
      \* n * n * variance = n * sum of squares - sum * sum
      nnVar == n * SumSeq([i \in 1..n |-> deltas[i] * deltas[i]]) - sum * sum
  IN  IF sum = 0 THEN 0 ELSE Isqrt((nnVar * 100000000) \div (sum * sum))

NoResults ==
  [present |-> FALSE, pitch |-> Null, jitter |-> Null, loudness |-> 0,
   qualityScore |-> 0, riskLevel |-> "", generated |-> FALSE]

VoiceInit ==
  /\ v_permission = "idle"
  /\ initPending = 0
  /\ mediaRecorder = "none"
  /\ v_isRecording = FALSE
  /\ loopIsRecording = FALSE
  /\ recordingTicks = 0
  /\ recordingTimer = FALSE
  /\ v_tickers = 0
  /\ isAnalyzing = FALSE
  /\ analysisTimers = 0
  /\ analysisResults = NoResults
  /\ pitchHistory = <<>>
  /\ peakRms = 0
  /\ peakF0 = Null
  /\ peakJitter = Null
  /\ v_f0 = Null
  /\ v_rms = 0
  /\ v_jitter = Null
  /\ v_loops = 0
  /\ v_loopsStarted = 0
  /\ v_mounted = TRUE

\* analysis timeouts pending at once
MaxAnalyses == 2

\* the setState calls and timers of stopRecording
stopRecording ==
  /\ v_isRecording' = FALSE
  /\ recordingTimer' = FALSE
  /\ v_tickers' = IF recordingTimer THEN v_tickers - 1 ELSE v_tickers
  /\ mediaRecorder' = IF mediaRecorder = "recording" THEN "inactive"
                      ELSE mediaRecorder
  /\ isAnalyzing' = TRUE
  /\ analysisTimers' = analysisTimers + 1

\* startRecording: the record button goes down.  With permission idle it
\* only calls initAudio, whose analyzeAudio closes over this render's
\* isRecording.
startRecording ==
  /\ UNCHANGED nonVoice
  /\ v_mounted
  /\ ~isAnalyzing
  /\ IF v_permission = "idle"
     THEN /\ initPending < MaxInits
          /\ initPending' = initPending + 1
          /\ loopIsRecording' = v_isRecording
          /\ UNCHANGED <<mediaRecorder, v_isRecording, recordingTicks,
                         recordingTimer, v_tickers, pitchHistory, peakRms, peakF0,
                         peakJitter>>
     ELSE IF mediaRecorder \in {"none", "recording"}
     THEN UNCHANGED <<initPending, loopIsRecording, mediaRecorder,
                      v_isRecording, recordingTicks, recordingTimer, v_tickers,
                      pitchHistory, peakRms, peakF0, peakJitter>>
     ELSE /\ pitchHistory' = <<>>
          /\ peakRms' = 0
          /\ peakF0' = Null
          /\ peakJitter' = Null
          /\ v_isRecording' = TRUE
          /\ recordingTicks' = 0
          /\ mediaRecorder' = "recording"
          /\ recordingTimer' = TRUE
          /\ v_tickers' = v_tickers + 1
          /\ UNCHANGED <<initPending, loopIsRecording>>
  /\ UNCHANGED <<micAccess, v_permission, isAnalyzing, analysisTimers,
                 analysisResults, v_f0, v_rms, v_jitter, v_loops,
                 v_loopsStarted, v_mounted>>

\* initAudio after its await: getUserMedia answers one of the initAudio
\* calls that wait for it.  A successful call starts one analysis loop and
\* puts a new, inactive recorder into mediaRecorderRef.current, whatever the
\* recorder it replaces is doing.
initAudioResolves ==
  /\ UNCHANGED nonVoice
  /\ initPending > 0
  /\ initPending' = initPending - 1
  /\ IF micAccess = "allow"
     THEN /\ mediaRecorder' = "inactive"
          /\ v_loops' = v_loops + 1
          /\ v_loopsStarted' = v_loopsStarted + 1
          /\ v_permission' = IF v_mounted THEN "granted" ELSE v_permission
     ELSE /\ v_permission' = IF v_mounted THEN "denied" ELSE v_permission
          /\ UNCHANGED <<mediaRecorder, v_loops, v_loopsStarted>>
  /\ UNCHANGED <<micAccess, v_isRecording, loopIsRecording, recordingTicks,
                 recordingTimer, v_tickers, isAnalyzing, analysisTimers, analysisResults,
                 pitchHistory, peakRms, peakF0, peakJitter, v_f0, v_rms,
                 v_jitter, v_mounted>>

\* the record button goes up
ReleaseRecord ==
  /\ UNCHANGED nonVoice
  /\ v_mounted
  /\ ~isAnalyzing
  /\ stopRecording
  /\ UNCHANGED <<micAccess, v_permission, initPending, loopIsRecording,
                 recordingTicks, analysisResults, pitchHistory, peakRms,
                 peakF0, peakJitter, v_f0, v_rms, v_jitter, v_loops,
                 v_loopsStarted, v_mounted>>

\* one tick of the interval of startRecording; stopRecording at 5 s
VoiceTick ==
  /\ UNCHANGED nonVoice
  /\ v_tickers > 0
  /\ IF recordingTicks + 1 >= voiceStopTicks
     THEN /\ analysisTimers < MaxAnalyses
          /\ recordingTicks' = voiceStopTicks
          /\ stopRecording
     ELSE /\ recordingTicks' = recordingTicks + 1
          /\ UNCHANGED <<v_isRecording, recordingTimer, v_tickers, mediaRecorder,
                         isAnalyzing, analysisTimers>>
  /\ UNCHANGED <<micAccess, v_permission, initPending, loopIsRecording,
                 analysisResults, pitchHistory, peakRms, peakF0, peakJitter,
                 v_f0, v_rms, v_jitter, v_loops, v_loopsStarted, v_mounted>>

\* the result record the timeout of stopRecording builds
analysisOf(pF0, pJitter, pRms, tape) ==
  LET fake == generateRealisticValues(tape)
      needFake == Falsy(pF0) \/ Falsy(pJitter) \/ pRms = 0
      finalPitch == IF needFake /\ Falsy(pF0) THEN fake.f0 ELSE pF0
      finalJitter == IF needFake /\ Falsy(pJitter) THEN fake.jitter ELSE pJitter
      finalRms == IF needFake /\ Falsy(pRms) THEN fake.rms ELSE pRms
      risk == calculateRiskScore(finalRms, finalJitter, finalPitch)
  IN  [present |-> TRUE, pitch |-> finalPitch, jitter |-> finalJitter,
       loudness |-> finalRms, qualityScore |-> (10 - risk) * 10,
       riskLevel |-> IF risk < 3 THEN "Low"
                     ELSE IF risk < 6 THEN "Medium" ELSE "High",
       generated |-> needFake]

\* the 2000 ms timeout of stopRecording fires
AnalysisTimeout(tape) ==
  /\ UNCHANGED nonVoice
  /\ analysisTimers > 0
  /\ analysisTimers' = analysisTimers - 1
  /\ IF v_mounted
     THEN /\ isAnalyzing' = FALSE
          /\ analysisResults' = analysisOf(peakF0, peakJitter, peakRms, tape)
     ELSE UNCHANGED <<isAnalyzing, analysisResults>>
  /\ UNCHANGED <<micAccess, v_permission, initPending, mediaRecorder,
                 v_isRecording, loopIsRecording, recordingTicks,
                 recordingTimer, v_tickers, pitchHistory, peakRms, peakF0, peakJitter,
                 v_f0, v_rms, v_jitter, v_loops, v_loopsStarted, v_mounted>>

\* finalF0 of analyzeAudio: the autocorrelation pitch, else the FFT pitch
\* when rms > 0.001
finalF0(frame) ==
  IF ~Falsy(frame.auto) THEN frame.auto
  ELSE IF frame.rms > 10 THEN frame.fft ELSE frame.auto

InBand(f) == ~Falsy(f) /\ f >= 50 /\ f <= 800

\* the history after a frame of pitch f: an in-band pitch is pushed when
\* the isRecording the loop sees is true
historyAfter(hist, f, rec) ==
  IF InBand(f) /\ rec THEN pushPitch(hist, f) ELSE hist

\* the jitter state after that frame: set when the pitch is in the band and
\* pitchHistory.current.length > 10, else left as it was
jitterAfter(hist, jit, f, rec) ==
  LET h == historyAfter(hist, f, rec)
  IN  IF InBand(f) /\ Len(h) > 10 THEN relJitter(h) ELSE jit

\* analyzeAudio: one animation frame of one analysis loop.  There is no
\* try block: when the analysis throws, the call ends before the
\* requestAnimationFrame at its end.
analyzeAudio(frame, throws) ==
  /\ UNCHANGED nonVoice
  /\ v_loops > 0
  /\ IF throws
     THEN /\ v_loops' = v_loops - 1
          /\ UNCHANGED <<pitchHistory, peakRms, peakF0, peakJitter, v_f0,
                         v_rms, v_jitter>>
     ELSE LET f == finalF0(frame)
              rec == InBand(f) /\ loopIsRecording
              hist == historyAfter(pitchHistory, f, loopIsRecording)
              hasJitter == InBand(f) /\ Len(hist) > 10
              rel == IF hasJitter THEN relJitter(hist) ELSE Null
          IN  /\ v_loops' = v_loops
              /\ pitchHistory' = hist
              /\ peakRms' = IF rec /\ frame.rms > peakRms THEN frame.rms
                            ELSE peakRms
              /\ peakF0' = IF rec /\ f > (IF Falsy(peakF0) THEN 0 ELSE peakF0)
                           THEN f ELSE peakF0
              /\ peakJitter' = IF hasJitter /\ loopIsRecording
                                  /\ (peakJitter = Null \/ rel > peakJitter)
                               THEN rel ELSE peakJitter
              /\ v_rms' = IF v_mounted THEN frame.rms ELSE v_rms
              /\ v_f0' = IF ~v_mounted THEN v_f0
                         ELSE IF InBand(f) THEN f ELSE Null
              /\ v_jitter' = IF v_mounted
                             THEN jitterAfter(pitchHistory, v_jitter, f,
                                              loopIsRecording)
                             ELSE v_jitter
  /\ UNCHANGED <<micAccess, v_permission, initPending, mediaRecorder,
                 v_isRecording, loopIsRecording, recordingTicks,
                 recordingTimer, v_tickers, isAnalyzing, analysisTimers, analysisResults,
                 v_loopsStarted, v_mounted>>

\* cleanup, at unmount: the recorder and the interval are stopped; the
\* analysis loops and the analysis timeouts are not cancelled
cleanup ==
  /\ UNCHANGED nonVoice
  /\ v_mounted
  /\ v_mounted' = FALSE
  /\ mediaRecorder' = IF mediaRecorder = "recording" THEN "inactive"
                      ELSE mediaRecorder
  /\ recordingTimer' = FALSE
  /\ v_tickers' = IF recordingTimer THEN v_tickers - 1 ELSE v_tickers
  /\ UNCHANGED <<micAccess, v_permission, initPending, v_isRecording,
                 loopIsRecording, recordingTicks, isAnalyzing, analysisTimers,
                 analysisResults, pitchHistory, peakRms, peakF0, peakJitter,
                 v_f0, v_rms, v_jitter, v_loops, v_loopsStarted>>

VoiceNext ==
  \/ startRecording
  \/ initAudioResolves
  \/ ReleaseRecord
  \/ VoiceTick
  \/ \E tape \in FakeTapes : AnalysisTimeout(tape)
  \/ \E frame \in AudioFrames, throws \in BOOLEAN : analyzeAudio(frame, throws)
  \/ cleanup

-----------------------------------------------------------------------------
(* The rolling buffers fed alone: the push-and-trim step of each buffer,   *)
(* applied to a stream of numbered values                                  *)

\* values pushed beyond the capacity of the buffer
MaxOver == 3

BufKinds == {"tremor", "intervals", "pitch"}

CapacityOf(kind) ==
  IF kind = "tremor" THEN tremorCapacity
  ELSE IF kind = "intervals" THEN intervalCapacity ELSE pitchCapacity

motorRest ==
  <<cameraAccess, m_permission, camPending, modelLoad, handLandmarker,
    m_mounted, m_isRecording, isRecordingRef, testDuration, fingerTaps,
    fingerTapsRef, lastTapTimeRef, timerRef, m_tickers, renderLoopStartedRef,
    m_rafPending, m_status, sinceStart, tapTimes, subFrames>>

voiceRest ==
  <<micAccess, v_permission, initPending, mediaRecorder, v_isRecording,
    loopIsRecording, recordingTicks, recordingTimer, v_tickers, isAnalyzing,
    analysisTimers, analysisResults, peakRms, peakF0, peakJitter, v_f0,
    v_rms, v_jitter, v_loops, v_loopsStarted, v_mounted>>

\* a frame with h hands pushes h samples, then splices once
BufTremorFrame(h) ==
  /\ UNCHANGED <<cogVars, motorRest, voiceRest, bufKind, fnVars>>
  /\ bufKind = "tremor"
  /\ Len(pushed) + h <= tremorCapacity + MaxOver
  /\ LET samples == [i \in 1..h |-> [t |-> Len(pushed) + i, y |-> Len(pushed) + i]]
     IN  /\ tremorSamplesRef' = pushTremor(tremorSamplesRef, samples)
         /\ pushed' = pushed \o samples
  /\ UNCHANGED <<tapIntervals, pitchHistory>>

BufTap ==
  /\ UNCHANGED <<cogVars, motorRest, voiceRest, bufKind, fnVars>>
  /\ bufKind = "intervals"
  /\ Len(pushed) < intervalCapacity + MaxOver
  /\ tapIntervals' = pushInterval(tapIntervals, Len(pushed) + 1)
  /\ pushed' = Append(pushed, Len(pushed) + 1)
  /\ UNCHANGED <<tremorSamplesRef, pitchHistory>>

BufPitch ==
  /\ UNCHANGED <<cogVars, motorRest, voiceRest, bufKind, fnVars>>
  /\ bufKind = "pitch"
  /\ Len(pushed) < pitchCapacity + MaxOver
  /\ pitchHistory' = pushPitch(pitchHistory, Len(pushed) + 1)
  /\ pushed' = Append(pushed, Len(pushed) + 1)
  /\ UNCHANGED <<tremorSamplesRef, tapIntervals>>

BufNext ==
  \/ \E h \in 1..2 : BufTremorFrame(h)
  \/ BufTap
  \/ BufPitch

-----------------------------------------------------------------------------
(* The analysis functions of the labs, applied alone to drawn arguments.   *)
(* Numbers are the real numbers the doubles of the code stand for: tap     *)
(* intervals in whole units, amplitudes in millionths.                     *)

\* longest list of tap intervals drawn
MaxIntervals == 3
\* the interval values drawn; the score depends on their ratios only
IntervalUnits == {0, 1, 3, 10}
\* tremorAmpNorm, in millionths
AmpMicros == {0, 1, 1000, 3333, 3334, 5000, 1000000}

SeqsUpTo(S, n) == UNION {[1..k -> S] : k \in 0..n}

SumSq(s) == SumSeq([i \in DOMAIN s |-> s[i] * s[i]])

\* (1/(1+cv))*100 >= m/2, where cv = std/mean = sqrt(D)/S for
\* S = sum x > 0 and D = n * sum x^2 - S^2
ratioAtLeastHalf(S, D, m) ==
  LET lhs == (200 - m) * S
  IN  IF m <= 0 THEN TRUE ELSE lhs >= 0 /\ lhs * lhs >= m * m * D

\* Math.max(0, Math.min(100, x)) >= m/2
clampedAtLeastHalf(S, D, m) == 0 >= m \/ (200 >= m /\ ratioAtLeastHalf(S, D, m))

\* Math.round: the integer k with k - 1/2 <= value < k + 1/2
roundClamped(S, D) ==
  CHOOSE k \in -1..101 :
    clampedAtLeastHalf(S, D, 2 * k - 1) /\ ~clampedAtLeastHalf(S, D, 2 * k + 1)

\* the score with the guard on the length testing for an empty list only
computeCoordinationScore_EmptyOnly(intervals) ==
  LET n == Len(intervals)
      S == SumSeq(intervals)
      D == n * SumSq(intervals) - S * S
  IN  IF n <= 0 THEN 0
      ELSE IF S = 0 THEN 0
      ELSE roundClamped(S, D)

RECURSIVE Gcd(_, _)
Gcd(a, b) == IF b = 0 THEN a ELSE Gcd(b, a % b)

RECURSIVE GcdSeq(_)
GcdSeq(s) == IF s = <<>> THEN 0 ELSE Gcd(Head(s), GcdSeq(Tail(s)))

\* std / mean is the same for the intervals and for the intervals divided by
\* their common divisor; the comparisons are made on the divided numbers,
\* which keeps their squares small
computeCoordinationScore(intervals) ==
  LET n == Len(intervals)
  IN  IF n <= 1 THEN 0
      ELSE IF SumSeq(intervals) = 0 THEN 0
      ELSE LET g == GcdSeq(intervals)
               unit == [i \in 1..n |-> intervals[i] \div g]
               S == SumSeq(unit)
               D == n * SumSq(unit) - S * S
           IN  roundClamped(S, D)

\* Math.round of a non-negative value given in 1/100000
roundE5(v) == (v + 50000) \div 100000

\* the weighted sum without its clamp and with the weight 0.4 for 0.3
computeMovementQuality_Unclamped(coordination, ampMicro) ==
  LET tremorPenalty == Min(10000, 3 * ampMicro)
  IN  roundE5(coordination * 70000 + (1000000 - tremorPenalty) * 4)

\* faulty variant: the penalty is left in percent (no division by 100)
computeMovementQuality_PercentPenalty(coordination, ampMicro) ==
  LET tremorPenalty == Min(1000000, 300 * ampMicro)
      sum == coordination * 70000 + (1000000 - tremorPenalty) * 3
  IN  (Max(0, Min(100 * 100000, sum)) + 50000) \div 100000

\* tremorPenalty in 1/10000: Math.min(100, amp*300*100) is 3 * ampMicro in
\* hundredths; the weighted sum in 1/100000
computeMovementQuality(coordination, ampMicro) ==
  LET tremorPenalty == Min(10000, 3 * ampMicro)
      sum == coordination * 70000 + (1000000 - tremorPenalty) * 3
  IN  roundE5(Max(0, Min(100 * 100000, sum)))

\* video.videoHeight of the 640 x 480 capture
videoHeight == 480
\* the sample counts drawn: below the floor of 6, and 6, where the sums of
\* the transform are exact in integers
SampleCounts == {0, 1, 5, 6}
\* wrist heights in px
WristYs == {100, 101, 104}
\* ms between two samples; the clock may stand still or be set back
SampleSteps == {-1, 0, 100}

\* 2*cos(-2*pi*m/6) and 2*sin(-2*pi*m/6)/sqrt(3)
cos2(m) == <<2, 1, -1, -2, -1, 1>>[(m % 6) + 1]
sin2(m) == <<0, -1, -1, 0, 1, 1>>[(m % 6) + 1]

\* 4 * mag^2 of harmonic k of 6 samples: re*re + im*im
mag2(ys, k) ==
  LET re == SumSeq([j \in 1..6 |-> ys[j] * cos2(k * (j - 1))])
      im == SumSeq([j \in 1..6 |-> ys[j] * sin2(k * (j - 1))])
  IN  re * re + 3 * im * im

dftMags(ys) == [k \in 1..(Len(ys) \div 2) |-> mag2(ys, k)]

\* the loop over the harmonics: if (mag > bestMag) { bestMag = mag; bestK = k }
RECURSIVE harmonicLoop(_, _, _, _)
harmonicLoop(mags, k, bestK, bestMag) ==
  IF k > Len(mags) THEN bestK
  ELSE IF mags[k] > bestMag THEN harmonicLoop(mags, k + 1, k, mags[k])
  ELSE harmonicLoop(mags, k + 1, bestK, bestMag)

\* ampNorm in millionths (to 1 %), freqHz in mHz (rounded down)
computeTremorMetrics(hasVideo, samples) ==
  LET n == Len(samples)
      ys == [i \in 1..n |-> samples[i].y]
      S == SumSeq(ys)
      D == n * SumSq(ys) - S * S
      ampNorm == (Isqrt(D * 10000) * 10000) \div (n * videoHeight)
      durationMs == samples[n].t - samples[1].t
      bestK == harmonicLoop(dftMags(ys), 1, -1, 0)
  IN  IF ~hasVideo \/ n < 6 THEN [ampNorm |-> 0, freqHz |-> 0]
      ELSE IF durationMs <= 0 THEN [ampNorm |-> ampNorm, freqHz |-> 0]
      ELSE [ampNorm |-> ampNorm,
            freqHz |-> IF bestK > 0
                       THEN (bestK * (n - 1) * 1000000) \div (durationMs * n)
                       ELSE 0]

\* the tremor metrics of one render
ApplyTremor ==
  /\ UNCHANGED <<cogVars, motorVars, voiceVars, bufVars>>
  /\ fnKind = "tremor"
  /\ fnOut = <<>>
  /\ fnOut' = <<computeTremorMetrics(fnIn.hasVideo, fnIn.samples)>>
  /\ UNCHANGED <<fnKind, fnIn>>

TremorInputs ==
  { [hasVideo |-> v,
     samples |-> [i \in DOMAIN ys |-> [t |-> EpochMs + 1000 + (i - 1) * step,
                                        y |-> ys[i]]]] :
      v \in BOOLEAN, step \in SampleSteps,
      ys \in UNION {[1..n -> WristYs] : n \in SampleCounts} }

\* audio samples in thousandths; a buffer of BufSize samples
BufSize == 6
BufValues == {-100, -1, 0, 1, 100}
SampleRates == {1600, 1900}

\* faulty variant of the loop over the lags: the last maximum wins
RECURSIVE lagLoop_LastWins(_, _, _, _, _)
lagLoop_LastWins(corr, lag, maxLag, bestLag, bestCorr) ==
  IF lag > maxLag THEN [bestLag |-> bestLag, bestCorr |-> bestCorr]
  ELSE IF corr[lag] >= bestCorr
  THEN lagLoop_LastWins(corr, lag + 1, maxLag, lag, corr[lag])
  ELSE lagLoop_LastWins(corr, lag + 1, maxLag, bestLag, bestCorr)

\* the loop over the lags: if (corr > bestCorr) { bestCorr = corr; bestLag = lag }
\* corr(lag) is the correlation times normSum
RECURSIVE lagLoop(_, _, _, _, _)
lagLoop(corr, lag, maxLag, bestLag, bestCorr) ==
  IF lag > maxLag THEN [bestLag |-> bestLag, bestCorr |-> bestCorr]
  ELSE IF corr[lag] > bestCorr THEN lagLoop(corr, lag + 1, maxLag, lag, corr[lag])
  ELSE lagLoop(corr, lag + 1, maxLag, bestLag, bestCorr)

\* norm[i] times SIZE: the samples without their mean
normOf(buf) == [i \in DOMAIN buf |-> Len(buf) * buf[i] - SumSeq(buf)]

\* the correlation at each lag, times normSum: sum / normSum when normSum > 0
corrOf(buf, sampleRate) ==
  LET SIZE == Len(buf)
      norm == normOf(buf)
  IN  [lag \in (sampleRate \div 800)..(sampleRate \div 50) |->
         IF SumSq(norm) > 0
         THEN SumSeq([i \in 1..Max(0, SIZE - lag) |-> norm[i] * norm[i + lag]])
         ELSE 0]

\* f0 in mHz (rounded down) or Null, rms in thousandths (rounded down)
autocorrelatePitch(buf, sampleRate) ==
  LET SIZE == Len(buf)
      rms == Isqrt(SumSq(buf) \div SIZE)
      normSum == SumSq(normOf(buf))
      MAX_LAG == sampleRate \div 50
      MIN_LAG == sampleRate \div 800
      best == lagLoop(corrOf(buf, sampleRate), MIN_LAG, MAX_LAG, -1, 0)
  IN  IF SumSq(buf) < SIZE THEN [f0 |-> Null, rms |-> rms]
      ELSE IF normSum = 0 \/ 100 * best.bestCorr < normSum
      THEN [f0 |-> Null, rms |-> rms]
      ELSE [f0 |-> IF best.bestLag > 0
                   THEN (sampleRate * 1000) \div best.bestLag ELSE Null,
            rms |-> rms]

\* the pitch of one audio frame
ApplyPitch ==
  /\ UNCHANGED <<cogVars, motorVars, voiceVars, bufVars>>
  /\ fnKind = "pitch"
  /\ fnOut = <<>>
  /\ fnOut' = <<autocorrelatePitch(fnIn.buf, fnIn.sampleRate)>>
  /\ UNCHANGED <<fnKind, fnIn>>

PitchInputs == [buf : [1..BufSize -> BufValues], sampleRate : SampleRates]

\* the riskScore useMemo of the live display, in tenths: j = jitter ?? 0
riskScore(rms, jitter, f0) ==
  LET j == IF jitter = Null THEN 0 ELSE jitter
      loud == IF rms < 10 THEN 4 ELSE IF rms < 100 THEN 2 ELSE 0
      jit == IF j > 1000 THEN 4 ELSE IF j > 600 THEN 3 ELSE 0
      nop == IF Falsy(f0) THEN 3 ELSE 0
  IN  Min(10, loud + jit + nop)

\* results.qualityScore = (1 - finalRiskScore) * 100, for a risk in tenths
qualityOf(risk) == (10 - risk) * 10

\* both risk scores of one triple of measurements
ApplyRisk ==
  /\ UNCHANGED <<cogVars, motorVars, voiceVars, bufVars>>
  /\ fnKind = "risk"
  /\ fnOut = <<>>
  /\ fnOut' = <<[post |-> calculateRiskScore(fnIn.rms, fnIn.jitter, fnIn.f0),
                 live |-> riskScore(fnIn.rms, fnIn.jitter, fnIn.f0)]>>
  /\ UNCHANGED <<fnKind, fnIn>>

\* faulty variant: the rate passed on as it is
clamp_None(n, lo, hi) == n

\* clamp
clamp(n, lo, hi) == Max(lo, Min(hi, n))

\* the product of two numbers in millionths, in millionths (cut off towards
\* zero), formed from the thousands and the units of the factors
mulE6(a, b) ==
  LET x == Abs(a)
      y == Abs(b)
      prod == (x \div 1000) * (y \div 1000)
              + ((x \div 1000) * (y % 1000) + (x % 1000) * (y \div 1000))
                \div 1000
  IN  IF (a < 0) = (b < 0) THEN prod ELSE -prod

\* a1..a6 and b1..b5, 1 of invNorm, in millionths
invNormA ==
  <<-39696830, 220946098, -275928510, 138357752, -30664798, 2506628>>
invNormB ==
  <<-54476099, 161585837, -155698980, 66801312, -13280682, 1000000>>

\* (((((c1 * r + c2) * r + c3) * r + c4) * r + c5) * r + c6)
RECURSIVE horner(_, _, _)
horner(coef, k, r) ==
  IF k = 1 THEN coef[1] ELSE mulE6(horner(coef, k - 1, r), r) + coef[k]

\* plow of invNorm, in millionths
plow == 24250

NotANumber == [kind |-> "nan", value |-> 0]
NoDPrime == [kind |-> "null", value |-> 0]

\* invNorm of p in millionths, in thousandths.  The middle branch is the
\* quotient of the two polynomials in r = q * q; the two outer branches take
\* the logarithm of p or of 1 - p, which for p = 0 or p = 1 is infinite and
\* makes the quotient NaN; their values for other p are not computed here.
invNorm(p) ==
  IF p < plow \/ 1000000 - plow < p
  THEN IF p <= 0 \/ p >= 1000000 THEN NotANumber
       ELSE [kind |-> "tail", value |-> 0]
  ELSE LET q == p - 500000
           r == mulE6(q, q)
           num == mulE6(horner(invNormA, 6, r), q)
           den == horner(invNormB, 6, r)
       IN  IF den = 0 THEN NotANumber
           ELSE [kind |-> "num",
                 value |-> IF (num < 0) = (den < 0)
                           THEN (Abs(num) * 1000) \div Abs(den)
                           ELSE -((Abs(num) * 1000) \div Abs(den))]

\* +(x).toFixed(2) of x in thousandths, in hundredths
toFixed2(x) == IF x < 0 THEN -((5 - x) \div 10) ELSE (x + 5) \div 10

\* the d' of four counts, in hundredths
dPrimeOf(c) ==
  LET hitRate == IF c.hits + c.misses > 0
                 THEN (c.hits * 1000000) \div (c.hits + c.misses)
                 ELSE 500000
      faRate == IF c.fas + c.crs > 0
                THEN (c.fas * 1000000) \div (c.fas + c.crs)
                ELSE 500000
      lo == 1000000 \div (2 * totalTrials)
      adjHit == clamp(hitRate, lo, 1000000 - lo)
      adjFA == clamp(faRate, lo, 1000000 - lo)
      zHit == invNorm(adjHit)
      zFA == invNorm(adjFA)
  IN  IF zHit.kind = "num" /\ zFA.kind = "num"
      THEN [kind |-> "num", value |-> toFixed2(zHit.value - zFA.value)]
      ELSE NotANumber

\* the nbackDPrime useMemo
nbackDPrime(test, phase, c) ==
  IF test # "nback" \/ phase # "complete" THEN NoDPrime ELSE dPrimeOf(c)

\* dPrime of generateReport
reportDPrime(testName, c) ==
  IF testName = "nback" THEN dPrimeOf(c) ELSE NoDPrime

\* the d' shown and the d' of the report, for four counts
ApplyDPrime ==
  /\ UNCHANGED <<cogVars, motorVars, voiceVars, bufVars>>
  /\ fnKind = "dprime"
  /\ fnOut = <<>>
  /\ fnOut' = <<[live |-> nbackDPrime(fnIn.test, fnIn.phase, fnIn.counts),
                 report |-> reportDPrime(fnIn.test, fnIn.counts)]>>
  /\ UNCHANGED <<fnKind, fnIn>>

\* one 2-back sequence and the branches that produced it
ApplyNBackSeq ==
  /\ UNCHANGED <<cogVars, motorVars, voiceVars, bufVars>>
  /\ fnKind = "nbackSeq"
  /\ fnOut = <<>>
  /\ fnOut' = <<[seq |-> makeNBackSeq(fnIn.tape),
                 branches |-> NBackBranches(fnIn.tape, <<>>, 0, {}, {})]>>
  /\ UNCHANGED <<fnKind, fnIn>>

\* values of Math.random() in one tape
TapeLen == 3

\* the tapes on which every while loop of the generators ends: read
\* cyclically they offer two different letters
NBackTapes ==
  {tape \in [1..TapeLen -> 0..(RandDen - 1)] :
     \E i, j \in 1..TapeLen :
       (tape[i] * Len(letters)) \div RandDen
         # (tape[j] * Len(letters)) \div RandDen}

NBackSeqInputs == [tape : NBackTapes]

CountValues == {0, 1, 3, 17}

DPrimeInputs ==
  [test : Tests, phase : {"running", "complete"},
   counts : [hits : CountValues, misses : CountValues,
             fas : CountValues, crs : CountValues]]

\* the history and jitter steps of one frame of analyzeAudio
ApplyJitter ==
  /\ UNCHANGED <<cogVars, motorVars, voiceVars, bufVars>>
  /\ fnKind = "jitter"
  /\ fnOut = <<>>
  /\ fnOut' = <<[history |-> historyAfter(fnIn.history, fnIn.f0, fnIn.rec),
                 jitter |-> jitterAfter(fnIn.history, fnIn.jitter, fnIn.f0,
                                        fnIn.rec)]>>
  /\ UNCHANGED <<fnKind, fnIn>>

\* a pitch history of n values around 220 Hz: alternating 220 and 221, or
\* with one larger step at its start
PitchRun(n, wide) ==
  [i \in 1..n |-> 220 + (IF wide /\ i = 1 THEN 2 ELSE i % 2)]

HistoryLengths == {0, 8, 9, 10, 11}

JitterInputs ==
  [history : {PitchRun(n, w) : n \in HistoryLengths, w \in BOOLEAN},
   jitter : {Null, 500},
   f0 : {Null, 40, 220},
   rec : BOOLEAN]

\* rms and jitter in 1/10000, around the thresholds of the score
RiskInputs ==
  [rms : {0, 9, 10, 99, 100, 500},
   jitter : {Null, 0, 600, 601, 1000, 1001},
   f0 : {Null, 220}]

\* the two scores of one render
ApplyScores ==
  /\ UNCHANGED <<cogVars, motorVars, voiceVars, bufVars>>
  /\ fnKind = "scores"
  /\ fnOut = <<>>
  /\ fnOut' = <<[coordination |-> computeCoordinationScore(fnIn.intervals),
                 quality |-> computeMovementQuality(fnIn.coordination, fnIn.amp)]>>
  /\ UNCHANGED <<fnKind, fnIn>>

\* the moments, in ms after the start of a recording, at which the fingers
\* may pinch
TapGrid == <<0, 150, 200, 250, 500, 1250, 4950>>

\* the tap state after the first k moments of the grid, from the reset of
\* beginRecording; pinch[i] tells whether the fingers pinch at moment i
RECURSIVE tapsAfter(_, _)
tapsAfter(pinch, k) ==
  IF k = 0
  THEN [fired |-> FALSE, lastTapTimeRef |-> NoTap, fingerTaps |-> 0,
        tapIntervals |-> <<>>]
  ELSE LET before == tapsAfter(pinch, k - 1)
       IN  IF pinch[k]
           THEN registerTap(EpochMs + TapGrid[k], before.lastTapTimeRef,
                            before.fingerTaps, before.tapIntervals)
           ELSE before

\* the taps of one recording and the coordination score shown after each
ApplyTaps ==
  /\ UNCHANGED <<cogVars, motorVars, voiceVars, bufVars>>
  /\ fnKind = "taps"
  /\ fnOut = <<>>
  /\ LET intervals == tapsAfter(fnIn.pinch, Len(TapGrid)).tapIntervals
     IN  fnOut' = <<[intervals |-> intervals,
                     scores |-> [k \in 1..Len(intervals) |->
                                   computeCoordinationScore(
                                     SubSeq(intervals, 1, k))]]>>
  /\ UNCHANGED <<fnKind, fnIn>>

TapInputs == [pinch : [1..Len(TapGrid) -> BOOLEAN]]

\* the movement quality of one coordination score and one tremor amplitude
ApplyQuality ==
  /\ UNCHANGED <<cogVars, motorVars, voiceVars, bufVars>>
  /\ fnKind = "quality"
  /\ fnOut = <<>>
  /\ fnOut' = <<[quality |-> computeMovementQuality(fnIn.coordination, fnIn.amp)]>>
  /\ UNCHANGED <<fnKind, fnIn>>

QualityInputs == [coordination : 0..100, amp : AmpMicros]

ScoreInputs ==
  [intervals : SeqsUpTo(IntervalUnits, MaxIntervals), coordination : {0, 1, 50, 99, 100},
   amp : AmpMicros]

-----------------------------------------------------------------------------
(* Specifications: one per lab.  The labs share no state, so each          *)
(* specification keeps the other labs at rest.                             *)

CogRest == CogInit /\ rndTape = <<1, 5, 3, 6>>
MotorRest == MotorInit /\ cameraAccess = "allow"
VoiceRest == VoiceInit /\ micAccess = "allow"
BufRest == bufKind = "tremor" /\ pushed = <<>>
FnRest == fnKind = "none" /\ fnIn = <<>> /\ fnOut = <<>>

CogNext ==
  \/ \E test \in Tests, prof \in Profiles : StartTest(test, prof)
  \/ ResetTest
  \/ CogTimerStep
  \/ CogResponse

InitCog == CogInit /\ MotorRest /\ VoiceRest /\ BufRest /\ FnRest

SpecCog == InitCog /\ [][CogNext]_vars

\* the timers fire, and the user who owes a response gives it
LiveCog == SpecCog /\ WF_vars(CogTimerStep \/ CogResponse)

InitMotor ==
  /\ CogRest /\ VoiceRest /\ BufRest /\ FnRest
  /\ MotorInit /\ cameraAccess \in MotorCameras

SpecMotor == InitMotor /\ [][MotorNext]_vars

\* a live interval fires its callback every 100 ms
LiveMotor == SpecMotor /\ WF_vars(MotorTick)

InitVoice ==
  /\ CogRest /\ MotorRest /\ BufRest /\ FnRest
  /\ VoiceInit /\ micAccess \in VoiceMics

SpecVoice == InitVoice /\ [][VoiceNext]_vars

InitBuf ==
  /\ CogRest /\ MotorRest /\ VoiceRest /\ FnRest
  /\ bufKind \in BufKinds /\ pushed = <<>>

SpecBuf == InitBuf /\ [][BufNext]_vars

FnNext ==
  \/ ApplyScores
  \/ ApplyTremor
  \/ ApplyPitch
  \/ ApplyRisk
  \/ ApplyJitter
  \/ ApplyDPrime
  \/ ApplyNBackSeq
  \/ ApplyQuality
  \/ ApplyTaps

InitFn ==
  /\ CogRest /\ MotorRest /\ VoiceRest /\ BufRest
  /\ fnOut = <<>>
  /\ \/ fnKind = "scores" /\ fnIn \in ScoreInputs
     \/ fnKind = "tremor" /\ fnIn \in TremorInputs
     \/ fnKind = "pitch" /\ fnIn \in PitchInputs
     \/ fnKind = "risk" /\ fnIn \in RiskInputs
     \/ fnKind = "jitter" /\ fnIn \in JitterInputs
     \/ fnKind = "dprime" /\ fnIn \in DPrimeInputs
     \/ fnKind = "nbackSeq" /\ fnIn \in NBackSeqInputs
     \/ fnKind = "quality" /\ fnIn \in QualityInputs
     \/ fnKind = "taps" /\ fnIn \in TapInputs

SpecFn == InitFn /\ [][FnNext]_vars

-----------------------------------------------------------------------------
(* Summary of the visible results (the summary useMemo) *)

CountType(results, type) ==
  Cardinality({i \in DOMAIN results : results[i].type = type})

counts ==
  [hits |-> CountType(trialResults, "hit"),
   misses |-> CountType(trialResults, "miss"),
   fas |-> CountType(trialResults, "false_alarm"),
   crs |-> CountType(trialResults, "correct_rejection")]

-----------------------------------------------------------------------------
(* Claims about the cognition battery *)

\* C1: every trial index has exactly one recorded outcome: no two recorded
\* results carry the same trial number, whatever the order of responses,
\* timeouts and inter-trial delays.
C1_OneOutcomePerTrial ==
  \A i, j \in DOMAIN trialResults :
    trialResults[i].trial = trialResults[j].trial => i = j

\* C2: whenever the phase is 'complete' the recorded list holds exactly
\* totalTrials results, numbered 1, 2, ..., totalTrials in that order.
C2_CompleteListIsOneToTwenty ==
  testPhase = "complete" =>
    /\ Len(trialResults) = totalTrials
    /\ \A i \in DOMAIN trialResults : trialResults[i].trial = i

\* C3: the phases follow ready -> instructions -> running -> complete: a
\* trial starts and an outcome is recorded only while the phase is
\* 'running', 'running' is entered only from 'instructions', and 'complete'
\* only from 'running'.
C3_PhaseOrder ==
  [][/\ (testPhase' = "running" /\ testPhase # "running") => testPhase = "instructions"
     /\ (testPhase' = "complete" /\ testPhase # "complete") => testPhase = "running"
     /\ Len(trialResults') > Len(trialResults) => testPhase = "running"
     /\ currentTrial' > currentTrial => testPhase' = "running"]_vars

\* C4: after resetTest the visible trial list is empty and no timer started
\* by the cancelled test is left to fire.
C4_ResetLeavesNothing ==
  testPhase = "ready" => (trialResults = <<>> /\ timers = <<>>)

\* C6: a completed run in which the user gave the right response in time on
\* every trial that asks for one, and none elsewhere, has no false alarm and
\* no miss in its summary.
C6_FlawlessRunHasNoErrors ==
  (testPhase = "complete" /\ profile = "perfect" /\ odd = 0) =>
    (counts.fas = 0 /\ counts.misses = 0)

\* a flawless 2-back run that had targets and non-targets is complete
C6_Witness ==
  /\ testPhase = "complete"
  /\ profile = "perfect"
  /\ odd = 0
  /\ currentTest = "nback"
  /\ counts.hits > 0
  /\ counts.crs > 0
  /\ Len(trialResults) = totalTrials

-----------------------------------------------------------------------------
(* Claims about the motor lab, the voice lab and the rolling buffers *)

\* C5: within one motor recording any two registered taps have timestamps
\* more than 200 ms apart, however closely the sub-threshold frames follow
\* one another; the tap count is the number of registered taps.
C5_TapsMoreThan200Apart ==
  /\ \A i, j \in DOMAIN tapTimes : i < j => tapTimes[j] - tapTimes[i] > 200
  /\ fingerTaps = Len(tapTimes)

\* a tap, a sub-threshold frame refused 100 ms later, and a second tap
C5_Witness ==
  /\ Len(tapTimes) = 2
  /\ subFrames = 3
  /\ tapTimes[2] - tapTimes[1] = 201

\* C7: after every call of a frame callback, whether its analysis threw or
\* not, the next call is scheduled: the motor loop, once started, always
\* has a frame pending, and every voice analysis loop that was started
\* still has one.
C7_LoopSurvivesException ==
  /\ renderLoopStartedRef => m_rafPending
  /\ v_loops = v_loopsStarted

\* C8: when camera or microphone access is denied the core state is the
\* initial one: no taps, no intervals, no tremor samples, no pitch history,
\* no peak values and no analysis result.
C8_DeniedLeavesCoreInitial ==
  /\ m_permission = "denied" =>
       (fingerTaps = 0 /\ tapIntervals = <<>> /\ tremorSamplesRef = <<>>)
  /\ v_permission = "denied" =>
       /\ pitchHistory = <<>>
       /\ peakRms = 0 /\ peakF0 = Null /\ peakJitter = Null
       /\ analysisResults = NoResults

\* the last `cap` values of a stream, in the order they were pushed
LastOf(s, cap) == IF Len(s) > cap THEN SubSeq(s, Len(s) - cap + 1, Len(s)) ELSE s

\* the buffer that is fed
BufferFed ==
  IF bufKind = "tremor" THEN tremorSamplesRef
  ELSE IF bufKind = "intervals" THEN tapIntervals ELSE pitchHistory

\* C9: after every push-and-trim step a rolling buffer holds at most its
\* capacity, and it holds exactly the last `capacity` values pushed, in the
\* order they were pushed.
C9_BufferKeepsLastCapacity ==
  /\ Len(BufferFed) <= CapacityOf(bufKind)
  /\ BufferFed = LastOf(pushed, CapacityOf(bufKind))

\* the tremor buffer after capacity + 2 samples, the last two in one frame
C9_Witness ==
  /\ bufKind = "tremor"
  /\ Len(pushed) = tremorCapacity + 2
  /\ Len(tremorSamplesRef) = tremorCapacity
  /\ tremorSamplesRef[1].t = 3

-----------------------------------------------------------------------------
\* C11: computeCoordinationScore and computeMovementQuality return an
\* integer between 0 and 100, for every list of non-negative intervals,
\* every coordination value in 0..100 and every non-negative amplitude.
C11_ScoresWithin0And100 ==
  fnKind = "scores" /\ fnOut # <<>> =>
    /\ fnOut[1].coordination \in 0..100
    /\ fnOut[1].quality \in 0..100

\* an uneven list of intervals scored strictly inside the range, next to the
\* best possible quality
C11_Witness ==
  /\ fnKind = "scores" /\ fnOut # <<>>
  /\ Len(fnIn.intervals) = 3
  /\ fnOut[1].coordination \in 1..99
  /\ fnOut[1].quality = 100

-----------------------------------------------------------------------------
\* t[last] - t[first] of a series of samples
Span(samples) == samples[Len(samples)].t - samples[1].t

\* C12: degenerate inputs give the neutral result: fewer than 6 tremor
\* samples give amplitude 0 and frequency 0, a time span t[last] - t[first]
\* of 0 or less gives frequency 0, and 0 or 1 tap intervals, or intervals of
\* mean 0, give the coordination score 0.
C12_DegenerateInputsAreNeutral ==
  /\ fnKind = "tremor" /\ fnOut # <<>> =>
       /\ Len(fnIn.samples) < 6 => fnOut[1] = [ampNorm |-> 0, freqHz |-> 0]
       /\ Len(fnIn.samples) >= 6 /\ Span(fnIn.samples) <= 0 => fnOut[1].freqHz = 0
  /\ fnKind = "scores" /\ fnOut # <<>>
       /\ (Len(fnIn.intervals) <= 1 \/ SumSeq(fnIn.intervals) = 0) =>
         fnOut[1].coordination = 0

\* six samples that differ, all of one instant: an amplitude and frequency 0
C12_Witness ==
  /\ fnKind = "tremor" /\ fnOut # <<>>
  /\ fnIn.hasVideo
  /\ Len(fnIn.samples) = 6 /\ Span(fnIn.samples) = 0
  /\ fnOut[1].ampNorm > 0 /\ fnOut[1].freqHz = 0

-----------------------------------------------------------------------------
\* C13: at every moment of a cognition test at most one timer started by
\* the test is pending, in all three test types (and reset, restart and
\* unmount cancel every timer the test started).
C13_OneTimerPending == Len(timers) <= 1

-----------------------------------------------------------------------------
\* C14: once a motor test is stopped, no step before the next
\* beginRecording changes the tap counter, the interval buffer, the last-tap
\* time or the tremor buffer, whatever frames still run; and the ticker is
\* cancelled by the stop and by unmount, so that no tick can fire after
\* either.
C14_StoppedTestIsFrozen ==
  /\ [](~m_isRecording => ~timerRef)
  /\ [](~m_mounted => ~timerRef)
  /\ [][(~m_isRecording /\ ~m_isRecording') =>
          UNCHANGED <<fingerTaps, fingerTapsRef, tapIntervals, lastTapTimeRef,
                      tremorSamplesRef>>]_vars

\* a recording with a tap has stopped at 5.0 s and the frame loop still runs
C14_Witness ==
  /\ ~m_isRecording /\ testDuration = durationLimit
  /\ fingerTaps > 0 /\ tremorSamplesRef # <<>>
  /\ m_mounted /\ handLandmarker /\ m_rafPending
  /\ sinceStart < MaxFrames * 100

-----------------------------------------------------------------------------
\* the type the 2-back rule gives trial t (0-based), with or without a
\* response
NBackType(t, responded) ==
  IF TrueTarget(t)
  THEN (IF responded THEN "hit" ELSE "miss")
  ELSE (IF responded THEN "false_alarm" ELSE "correct_rejection")

\* C15: in the 2-back test trial t (0-based) is a target iff t >= 2 and its
\* letter is the letter of trial t-2; a response is recorded as 'hit'
\* (correct) on a target and as 'false_alarm' (incorrect) otherwise; a trial
\* that ends without a response is recorded as 'miss' (incorrect) on a
\* target and as 'correct_rejection' (correct) otherwise.
C15_NBackClassification ==
  /\ [](currentTest = "nback" =>
         \A i \in DOMAIN trialResults :
           LET r == trialResults[i]
           IN  /\ r.type = NBackType(r.trial - 1, r.rt # NoRt)
               /\ r.correct = (r.type \in {"hit", "correct_rejection"}))
  /\ [][(\E d \in Delays : NBackAnswer(d)) =>
          /\ Len(trialResults') = Len(trialResults) + 1
          /\ trialResults'[Len(trialResults')].trial = currentTrial
          /\ trialResults'[Len(trialResults')].rt # NoRt]_vars
  /\ [][(NBackTrialFires /\ ~responseTaken) =>
          /\ Len(trialResults') = Len(trialResults) + 1
          /\ trialResults'[Len(trialResults')].trial = currentTrial
          /\ trialResults'[Len(trialResults')].rt = NoRt]_vars

\* a 2-back run past its targets holds a hit, a miss and a correct rejection
C15_Witness ==
  /\ currentTest = "nback"
  /\ counts.hits > 0
  /\ counts.misses > 0
  /\ counts.crs > 0
  /\ \E i \in DOMAIN trialResults : trialResults[i].trial > 2 /\ trialResults[i].type = "hit"

-----------------------------------------------------------------------------
\* this step is a frame that analysed the hands `hands`
FrameWith(hands) ==
  /\ sinceStart' > sinceStart
  /\ predictWebcam(TRUE, FALSE, hands, sinceStart' - sinceStart)

\* some thumb-index distance of the frame is below the threshold
BelowThreshold(hands) == \E i \in DOMAIN hands : hands[i].d < TapThresholdPx

\* there was a tap, and 200 ms or less have passed since
InRefractory == lastTapTimeRef # NoTap /\ DateNow' - lastTapTimeRef <= 200

\* C16: when a tap fires at time now, the last-tap time becomes now, the tap
\* counter grows by exactly 1 and exactly one value is appended to the
\* interval buffer: now minus the previous tap time, or 0 for the first tap
\* of the recording; so, below 600 taps, the number of stored intervals
\* equals the tap count.
C16_TapEffects ==
  /\ [][\A hands \in HandInputs :
          (FrameWith(hands) /\ BelowThreshold(hands) /\ ~InRefractory) =>
            /\ lastTapTimeRef' = DateNow'
            /\ fingerTaps' = fingerTaps + 1
            /\ tapIntervals' =
                 Append(tapIntervals,
                        IF lastTapTimeRef = NoTap THEN 0
                        ELSE DateNow' - lastTapTimeRef)]_vars
  /\ [](fingerTaps < 600 => Len(tapIntervals) = fingerTaps)

\* the second tap of a recording, 201 ms after the first
C16_Witness ==
  /\ fingerTaps = 2
  /\ tapIntervals = <<0, 201>>
  /\ lastTapTimeRef = DateNow
  /\ isRecordingRef

\* C17: a frame that fires no tap, because the smallest thumb-index distance
\* is not below the threshold or because 200 ms or less have passed since
\* the last tap, leaves the last-tap time, the tap counter and the interval
\* buffer unchanged.
C17_NoTapNoChange ==
  [][\A hands \in HandInputs :
       (FrameWith(hands) /\ (~BelowThreshold(hands) \/ InRefractory)) =>
         UNCHANGED <<lastTapTimeRef, fingerTaps, fingerTapsRef, tapIntervals>>]_vars

\* a tap, a pinch refused 100 ms later, and a frame with the fingers apart
C17_Witness ==
  /\ fingerTaps = 1
  /\ tapIntervals = <<0>>
  /\ subFrames = 2
  /\ Len(tremorSamplesRef) = 3
  /\ DateNow - lastTapTimeRef = 200

-----------------------------------------------------------------------------
\* C18: in the motor lab and in the voice lab at most one recording-duration
\* ticker is live at any time (a start request during a recording starts no
\* second one, and a new ticker is started only after any earlier one of
\* that lab has been cancelled).
C18_OneTickerPerLab == m_tickers <= 1 /\ v_tickers <= 1

-----------------------------------------------------------------------------
\* the test has stopped at 5.0 s: recording off, ticker cancelled
StoppedAtLimit ==
  /\ testDuration = durationLimit
  /\ ~m_isRecording /\ ~isRecordingRef
  /\ ~timerRef /\ m_tickers = 0

\* C19: every started motor recording stops by itself unless the component
\* is unmounted first: after exactly 50 ticks of 100 ms the duration is 5.0,
\* recording is off and the ticker is cancelled; during a recording the
\* duration changes only by a tick, which adds 0.1, and it never exceeds 5.
C19_RecordingStopsAtFive ==
  /\ [](testDuration \in 0..durationLimit)
  /\ [](m_isRecording => testDuration < durationLimit)
  /\ [](testDuration = durationLimit => StoppedAtLimit)
  /\ [][m_isRecording =>
          IF MotorTick THEN testDuration' = testDuration + 1
          ELSE testDuration' = testDuration]_vars
  /\ (m_isRecording /\ m_mounted) ~> (StoppedAtLimit \/ ~m_mounted)

\* a recording has run its 50 ticks and stopped, the component still mounted
C19_Witness == StoppedAtLimit /\ m_mounted /\ m_status = "info"

\* C19 as stated, without the exception of the unmount: every started
\* recording reaches 5.0 s and stops
C19_EveryRecordingStops == m_isRecording ~> StoppedAtLimit

-----------------------------------------------------------------------------
\* the first candidate that attains the maximum of f
FirstMax(f) ==
  CHOOSE x \in DOMAIN f :
    /\ \A y \in DOMAIN f : f[y] <= f[x]
    /\ \A y \in DOMAIN f : y < x => f[y] < f[x]

\* the series reaches the loop over the harmonics
TremorAnalysed ==
  /\ fnKind = "tremor" /\ fnOut # <<>>
  /\ fnIn.hasVideo /\ Len(fnIn.samples) >= 6 /\ Span(fnIn.samples) > 0

\* the tremor analyzer returns the smallest harmonic of maximal magnitude,
\* and frequency 0 when every magnitude is 0
TremorPeakIsFirstMax ==
  TremorAnalysed =>
    LET n == Len(fnIn.samples)
        mags == dftMags([i \in 1..n |-> fnIn.samples[i].y])
    IN  fnOut[1].freqHz =
          IF \A k \in DOMAIN mags : mags[k] = 0 THEN 0
          ELSE (FirstMax(mags) * (n - 1) * 1000000) \div (Span(fnIn.samples) * n)

\* rms < 0.001, for samples in thousandths
Silent(buf) == SumSq(buf) < Len(buf)

\* the largest normalized correlation is below 0.01
WeakPeak(buf, sampleRate) ==
  LET c == corrOf(buf, sampleRate)
  IN  100 * c[FirstMax(c)] < SumSq(normOf(buf)) \/ SumSq(normOf(buf)) = 0

\* the pitch of the shortest lag of maximal correlation, in mHz
PitchOfFirstMax(buf, sampleRate) ==
  (sampleRate * 1000) \div FirstMax(corrOf(buf, sampleRate))

\* C20: peak picking returns the first candidate that attains the maximum:
\* the tremor analyzer returns the smallest harmonic k in 1..floor(n/2) of
\* maximal magnitude (frequency 0 when every magnitude is 0); the pitch
\* estimator returns the shortest lag in floor(sampleRate/800) ..
\* floor(sampleRate/50) of maximal normalized correlation, and no pitch when
\* the rms is below 0.001 or that maximal correlation is below 0.01 (which
\* includes the case that no correlation is positive).
C20_FirstMaximumWins ==
  /\ TremorPeakIsFirstMax
  /\ fnKind = "pitch" /\ fnOut # <<>> =>
       fnOut[1].f0 =
         IF Silent(fnIn.buf) \/ WeakPeak(fnIn.buf, fnIn.sampleRate) THEN Null
         ELSE PitchOfFirstMax(fnIn.buf, fnIn.sampleRate)

\* two lags tie for the maximal correlation and the shorter one is returned
C20_Witness ==
  /\ fnKind = "pitch" /\ fnOut # <<>>
  /\ fnOut[1].f0 # Null
  /\ LET c == corrOf(fnIn.buf, fnIn.sampleRate)
     IN  \E lag \in DOMAIN c : lag > FirstMax(c) /\ c[lag] = c[FirstMax(c)]

\* C20 as stated: no pitch only when no correlation is positive
C20_PitchUnlessNoneIsPositive ==
  /\ TremorPeakIsFirstMax
  /\ (fnKind = "pitch" /\ fnOut # <<>> /\ ~Silent(fnIn.buf)) =>
       fnOut[1].f0 =
         IF \A lag \in DOMAIN corrOf(fnIn.buf, fnIn.sampleRate) :
              corrOf(fnIn.buf, fnIn.sampleRate)[lag] <= 0
         THEN Null
         ELSE PitchOfFirstMax(fnIn.buf, fnIn.sampleRate)

-----------------------------------------------------------------------------
\* the risk as the sum of its three parts, in tenths, capped at 1.0
RiskSum(rms, jitter, f0) ==
  LET total ==
        (IF rms < 10 THEN 4 ELSE IF rms < 100 THEN 2 ELSE 0)
        + (IF jitter = Null THEN 0
           ELSE IF jitter > 1000 THEN 4 ELSE IF jitter > 600 THEN 3 ELSE 0)
        + (IF f0 = Null THEN 3 ELSE 0)
  IN  IF total > 10 THEN 10 ELSE total

\* C21: the voice risk is 0.4 if rms < 0.001, else 0.2 if rms < 0.01; plus
\* 0.4 if jitter > 0.1, else 0.3 if jitter > 0.06 (a missing jitter adds
\* nothing); plus 0.3 if there is no pitch; capped at 1.0, so that the
\* quality (1 - risk) * 100 lies in 0..100; the live riskScore and
\* calculateRiskScore agree on every (rms, jitter, pitch).
C21_RiskScore ==
  fnKind = "risk" /\ fnOut # <<>> =>
    /\ fnOut[1].post = RiskSum(fnIn.rms, fnIn.jitter, fnIn.f0)
    /\ fnOut[1].live = fnOut[1].post
    /\ qualityOf(fnOut[1].post) \in 0..100

\* quiet, very unsteady and without pitch: the sum 1.1 is capped at 1.0
C21_Witness ==
  /\ fnKind = "risk" /\ fnOut # <<>>
  /\ fnIn = [rms |-> 9, jitter |-> 1001, f0 |-> Null]
  /\ fnOut[1] = [post |-> 10, live |-> 10]

-----------------------------------------------------------------------------
\* C22: the pitch history holds exactly the pitch values detected inside
\* the band 50..800 Hz while a recording was in progress (the most recent
\* 100 of them): a frame of the mounted lab appends its pitch when the pitch
\* is in the band and a recording is in progress, and no other frame
\* changes the history.
C22_HistoryFollowsRecording ==
  [][\A frame \in AudioFrames :
       v_mounted /\ analyzeAudio(frame, FALSE) =>
         pitchHistory' = IF InBand(finalF0(frame)) /\ v_isRecording
                         THEN pushPitch(pitchHistory, finalF0(frame))
                         ELSE pitchHistory]_vars

-----------------------------------------------------------------------------
-----------------------------------------------------------------------------
\* a rate in millionths: 0.5 when the denominator is 0
RateOf(n, d) == IF d = 0 THEN 500000 ELSE (n * 1000000) \div d

\* a rate brought into 1/40 .. 39/40
Adjusted(x) == IF x < 25000 THEN 25000 ELSE IF x > 975000 THEN 975000 ELSE x

-----------------------------------------------------------------------------
\* C25: every sequence produced by makeNBackSeq has exactly 20 letters from
\* A..H; positions 0 and 1 are never targets; and a position t >= 2 equals
\* the letter at t - 2 only when the generator forced that match.
C25_MatchesAreForced ==
  fnKind = "nbackSeq" /\ fnOut # <<>> =>
    LET seq == fnOut[1].seq
        forced == fnOut[1].branches.forced
    IN  /\ Len(seq) = 20
        /\ \A i \in 1..Len(seq) : \E k \in 1..8 : seq[i] = letters[k]
        /\ ~IsTargetAt(seq, 0) /\ ~IsTargetAt(seq, 1)
        /\ forced \subseteq 2..19
        /\ \A t \in 2..19 : seq[t + 1] = seq[t - 1] <=> t \in forced

\* a sequence with a forced match and with a position whose first draw
\* matched the letter two back and was drawn again
C25_Witness ==
  /\ fnKind = "nbackSeq" /\ fnOut # <<>>
  /\ fnOut[1].branches.forced # {}
  /\ fnOut[1].branches.redrawn # {}
  /\ \E t \in fnOut[1].branches.redrawn :
       fnOut[1].seq[t + 1] # fnOut[1].seq[t - 1]

-----------------------------------------------------------------------------
\* C26: in the saccade test a click that lands outside the 22 px target
\* radius does not count: it records no outcome and leaves the trial open
\* (target visible, response not taken, trial timeout armed).
C26_OutsideClickDoesNotCount ==
  [][\A o \in ClickOffsets, d \in Delays :
       SaccadeClick(o[1], o[2], d) /\ ~Within(o[1], o[2]) =>
         /\ trialResults' = trialResults
         /\ saccadeVisible'
         /\ ~responseTaken'
         /\ \E i \in DOMAIN timers' : timers'[i].kind = "trial"]_vars

-----------------------------------------------------------------------------
\* results.filter(t => t.correct).length of the summary
CorrectCount == Cardinality({i \in DOMAIN trialResults : trialResults[i].correct})

\* C27: every recorded trial result is consistent, in all three tests:
\* correct is true exactly when type is hit or correct_rejection, and rt is
\* null exactly when type is miss or correct_rejection; hence the four
\* counts add up to the number of results and accuracy is
\* (hits + correctRejections) / results.
C27_ResultsAreConsistent ==
  /\ \A i \in DOMAIN trialResults :
       LET r == trialResults[i]
       IN  /\ r.type \in {"hit", "miss", "false_alarm", "correct_rejection"}
           /\ r.correct <=> r.type \in {"hit", "correct_rejection"}
           /\ r.rt = NoRt <=> r.type \in {"miss", "correct_rejection"}
           /\ r.rt # NoRt => r.rt >= 0
  /\ counts.hits + counts.misses + counts.fas + counts.crs = Len(trialResults)
  /\ CorrectCount = counts.hits + counts.crs

\* a 2-back test with a hit, a miss and a correct rejection among its
\* results
C27_Witness ==
  /\ currentTest = "nback"
  /\ counts.hits > 0 /\ counts.misses > 0 /\ counts.crs > 0

-----------------------------------------------------------------------------
\* C28: stopRecording has an effect only while a recording is in progress:
\* releasing the record button when no recording is in progress does not
\* enter the analyzing state and schedules no analysis timeout.
C28_StopNeedsRecording ==
  [][ReleaseRecord /\ ~v_isRecording =>
       /\ isAnalyzing' = isAnalyzing
       /\ analysisTimers' = analysisTimers]_vars

-----------------------------------------------------------------------------
\* C29: computeMovementQuality(coordination, tremorAmplitude) is never below
\* 30 for a coordination in 0..100 and a non-negative tremor amplitude, and
\* with the coordination fixed another tremor amplitude changes the result
\* by at most 1 point.
C29_QualityFloorAndTremorShare ==
  fnKind = "quality" /\ fnOut # <<>> =>
    /\ fnOut[1].quality >= 30
    /\ \A other \in AmpMicros :
         Abs(fnOut[1].quality
             - computeMovementQuality(fnIn.coordination, other)) <= 1

\* coordination 1: 31 points without tremor, 30 with the full penalty
C29_Witness ==
  /\ fnKind = "quality" /\ fnOut # <<>>
  /\ fnIn = [coordination |-> 1, amp |-> 0]
  /\ fnOut[1].quality = 31
  /\ computeMovementQuality(1, 1000000) = 30

-----------------------------------------------------------------------------
\* C30: the tap detector produces, within one recording, a first interval
\* of 0 and later intervals greater than 200 ms; for these intervals the
\* coordination score is 0 after the first tap, 50 after the second tap
\* whatever its timing, and below 100 after every tap.
C30_ScoreOfDetectedTaps ==
  fnKind = "taps" /\ fnOut # <<>> =>
    LET intervals == fnOut[1].intervals
        scores == fnOut[1].scores
    IN  /\ \A k \in DOMAIN intervals :
             IF k = 1 THEN intervals[k] = 0 ELSE intervals[k] > 200
        /\ Len(scores) >= 1 => scores[1] = 0
        /\ Len(scores) >= 2 => scores[2] = 50
        /\ \A k \in DOMAIN scores : scores[k] < 100

\* three taps 250 ms apart, with two pinches refused in between: the
\* intervals 0, 250, 250 score 0, 50 and 59
C30_Witness ==
  /\ fnKind = "taps" /\ fnOut # <<>>
  /\ fnIn.pinch = <<TRUE, TRUE, TRUE, TRUE, TRUE, FALSE, FALSE>>
  /\ fnOut[1].intervals = <<0, 250, 250>>
  /\ fnOut[1].scores = <<0, 50, 59>>

====
